---- MODULE Spec2Model ----
(***************************************************************************)
(* Model of the XMTP channel plugin: the per-message policy gate of        *)
(* xmtpPlugin.gateway.startAccount (onMessage) and the inbound event       *)
(* handlers of startXmtpBus that feed it.                                  *)
(*                                                                         *)
(* Strings are sequences of one-character strings, so that trim(),         *)
(* toLowerCase() and the address pattern are computed, not assumed.        *)
(***************************************************************************)
EXTENDS Integers, Sequences, FiniteSets, TLC

(***************************************************************************)
(* Bounds                                                                  *)
(***************************************************************************)
\* number of hex digits of an address (the pattern's {40}, scaled down)
AddrDigits == 1
\* inbound events delivered to the account in one behaviour
MaxMsgs == 2
\* payloads the responder hands to the delivery callback per message
MaxDeliver == 1
\* invocations of startAccount in one behaviour
MaxRuns == 2
\* invocations of stopAccount in one behaviour
MaxStops == 1
\* calls of sendText and sendReply on the bus handle in one behaviour
MaxCalls == 2
\* resolved target chains of one invocation of register
MaxChains == 2
\* chain inputs of one request for target-chain resolution
MaxInputs == 3
\* argument tokens of one invocation of the registration command
MaxTokens == 2
\* edits of the configuration while the session runs, in one behaviour
MaxEdits == 1

\* calls of setPolicy of the onboarding adapter, in one behaviour
MaxPolicies == 2

(***************************************************************************)
(* Strings                                                                 *)
(***************************************************************************)
HexLower == {"0", "1", "a", "b"}

\* String.prototype.toLowerCase, one character
LowerChar(c) ==
  CASE c = "A" -> "a"
    [] c = "B" -> "b"
    [] c = "C" -> "c"
    [] c = "D" -> "d"
    [] c = "E" -> "e"
    [] c = "F" -> "f"
    [] c = "G" -> "g"
    [] c = "H" -> "h"
    [] c = "I" -> "i"
    [] c = "J" -> "j"
    [] c = "K" -> "k"
    [] c = "L" -> "l"
    [] c = "M" -> "m"
    [] c = "N" -> "n"
    [] c = "O" -> "o"
    [] c = "P" -> "p"
    [] c = "Q" -> "q"
    [] c = "R" -> "r"
    [] c = "S" -> "s"
    [] c = "T" -> "t"
    [] c = "U" -> "u"
    [] c = "V" -> "v"
    [] c = "W" -> "w"
    [] c = "X" -> "x"
    [] c = "Y" -> "y"
    [] c = "Z" -> "z"
    [] OTHER -> c

ToLowerCase(s) == [i \in 1..Len(s) |-> LowerChar(s[i])]

RECURSIVE TrimStart(_)
TrimStart(s) ==
  IF s = <<>> THEN <<>>
  ELSE IF Head(s) = " " THEN TrimStart(Tail(s)) ELSE s

RECURSIVE TrimEnd(_)
TrimEnd(s) ==
  IF s = <<>> THEN <<>>
  ELSE IF s[Len(s)] = " " THEN TrimEnd(SubSeq(s, 1, Len(s) - 1)) ELSE s

\* String.prototype.trim
Trim(s) == TrimEnd(TrimStart(s))

\* /^0x[0-9a-f]{40}$/
MatchesLowerAddress(s) ==
  /\ Len(s) = 2 + AddrDigits
  /\ s[1] = "0"
  /\ s[2] = "x"
  /\ \A i \in 3..Len(s) : s[i] \in HexLower

\* the value a throwing call is modelled to produce
Thrown == <<"!", "throw">>

NormalizeEthAddress(input) ==
  LET trimmed == ToLowerCase(Trim(input))
  IN IF ~MatchesLowerAddress(trimmed) THEN Thrown ELSE trimmed

NormalizeAllowEntry(entry) ==
  LET trimmed == Trim(entry)
  IN IF trimmed = <<>> THEN <<>>
     ELSE IF trimmed = <<"*">> THEN <<"*">>
     ELSE IF NormalizeEthAddress(trimmed) # Thrown
          THEN NormalizeEthAddress(trimmed)
          ELSE ToLowerCase(trimmed)

RECURSIVE FilterNonEmpty(_)
FilterNonEmpty(list) ==
  IF list = <<>> THEN <<>>
  ELSE IF Len(Head(list)) > 0
       THEN <<Head(list)>> \o FilterNonEmpty(Tail(list))
       ELSE FilterNonEmpty(Tail(list))

NormalizeAllowEntries(entries) ==
  FilterNonEmpty([i \in 1..Len(entries) |-> NormalizeAllowEntry(entries[i])])

Range(list) == {list[i] : i \in 1..Len(list)}


(***************************************************************************)
(* Inputs: senders, raw allowlist entries, configurations                  *)
(***************************************************************************)
\* senderAddress of an event whose address cannot be resolved
Undefined == <<"!", "undefined">>

AddrOf(digit) == <<"0", "x">> \o [i \in 1..AddrDigits |-> digit]

\* an event's sender as the transport reports it: the address (mixed case,
\* or undefined) and the inbox identifier (always present)
Alice == [address |-> AddrOf("A"), inboxId |-> <<"q", "1">>]
Bob == [address |-> Undefined, inboxId |-> <<"q", "2">>]
\* the account's own identity: its sends come back on the same stream
Agent == [address |-> AddrOf("B"), inboxId |-> <<"q", "0">>]
Senders == {Alice, Bob, Agent}

Wildcard == <<"*">>
BlankEntry == <<" ">>
PaddedAlice == <<" ">> \o AddrOf("A") \o <<" ">>
UpperBob == <<"Q", "2">>

\* configured allowFrom / groupAllowFrom values (raw, as written in the config)
AllowLists == { <<BlankEntry>>, <<Wildcard>>, <<PaddedAlice, BlankEntry>> }
GroupAllowLists == { <<>>, <<UpperBob>> }

DmPolicies == {"undefined", "open", "pairing", "allowlist", "disabled"}
GroupPolicies == {"undefined", "open", "allowlist", "disabled"}

\* configurations under which direct messages arrive: any DM side, group side unset
DmConfigs ==
  [dmPolicy : DmPolicies, allowFrom : AllowLists,
   groupPolicy : {"undefined"}, groupAllowFrom : {<<>>}]

\* configurations under which group messages arrive: any group side, and a DM
\* side that would let every sender through
GroupConfigs ==
  [dmPolicy : {"open"}, allowFrom : {<<Wildcard>>},
   groupPolicy : GroupPolicies, groupAllowFrom : GroupAllowLists]

AccountId == "default"
EventKinds == {"text", "reply", "markdown"}
\* message contents: whitespace only, or a body; a reply may carry no text at all
Body == <<"h", "i">>
Texts == {<<" ">>, Body}

(***************************************************************************)
(* Collaborators of the gate                                               *)
(***************************************************************************)
\* resolveAllowlistMatchSimple: wildcard entry, or the sender among the entries
ResolveAllowlistMatchSimple(allowFrom, senderId) ==
  IF Len(allowFrom) = 0 THEN [allowed |-> FALSE, matchSource |-> "none"]
  ELSE IF Wildcard \in Range(allowFrom)
       THEN [allowed |-> TRUE, matchSource |-> "wildcard"]
  ELSE IF ToLowerCase(senderId) \in Range(allowFrom)
       THEN [allowed |-> TRUE, matchSource |-> "id"]
  ELSE [allowed |-> FALSE, matchSource |-> "none"]

\* resolveControlCommandGate
ResolveControlCommandGate(useAccessGroups, authorizer, allowTextCommands, hasControlCommand) ==
  LET commandAuthorized ==
        IF ~useAccessGroups THEN TRUE
        ELSE authorizer.configured /\ authorizer.allowed
  IN [commandAuthorized |-> commandAuthorized,
      shouldBlock |-> allowTextCommands /\ hasControlCommand /\ ~commandAuthorized]

\* cfg.commands.useAccessGroups, shouldHandleTextCommands, isControlCommandMessage
GateInputs ==
  [useAccessGroups : BOOLEAN, allowTextCommands : BOOLEAN, hasControlCommand : BOOLEAN]

\* an enumeration of a set, as the store returns its entries
RECURSIVE SetToSeq(_)
SetToSeq(S) ==
  IF S = {} THEN <<>>
  ELSE LET x == CHOOSE y \in S : TRUE IN <<x>> \o SetToSeq(S \ {x})

PairingKey(channel, id, accountId) ==
  [channel |-> channel, id |-> id, accountId |-> accountId]

NoKey == PairingKey("none", <<>>, "none")

(***************************************************************************)
(* State                                                                   *)
(***************************************************************************)
VARIABLES
  allowStore,   \* pairing store: approved sender identifiers of the account
  pending,      \* pairing store: keys of the open pairing requests
  handlers,     \* the running invocations of the inbound event handlers
  codesSent,    \* pairing-code replies delivered, per sender identifier
  approvedEver, \* sender identifiers that were approved at some time
  crashed,      \* an error escaped an event handler
  msgs          \* inbound events delivered so far

gateVars == <<allowStore, pending, handlers, codesSent, approvedEver, crashed, msgs>>

VARIABLES
  runs,         \* the invocations of startAccount: position, retry loop, session
  stops,        \* the invocations of stopAccount
  activeBuses   \* the map account id -> active session (the run that opened it)

lifeVars == <<runs, stops, activeBuses>>

VARIABLES
  consents      \* the last conversation event and what auto-consent did with it

consentVars == <<consents>>

VARIABLES
  calls         \* the calls made on the bus handle's sendText and sendReply

outVars == <<calls>>

VARIABLES
  reg           \* the invocation of the registration engine

regVars == <<reg>>

VARIABLES
  tgt,          \* the call of resolveErc8004TargetChains: inputs and outcome
  uri           \* the call of resolveErc8004TokenUri: inputs and outcome

resolveVars == <<tgt, uri>>

VARIABLES
  cmd           \* the invocation of the /xmtp-8004-register command handler

cmdVars == <<cmd>>

VARIABLES
  account       \* the call of listXmtpAccountIds and resolveXmtpAccount

acctVars == <<account>>

VARIABLES
  liveCfg       \* the configuration: at session start, now, and its edits so far

cfgVars == <<liveCfg>>

VARIABLES
  adapter       \* the invocation of the plugin's outbound.sendText

adapterVars == <<adapter>>

\* the calls of the pure resolution functions and of the command handler
callVars == <<resolveVars, cmdVars, acctVars>>

\* the state outside the per-message gate
restVars == <<lifeVars, consentVars, outVars, regVars, callVars, cfgVars, adapterVars>>

\* the state outside the account lifecycle
notLifeVars == <<gateVars, consentVars, outVars, regVars, callVars, cfgVars, adapterVars>>

\* the state outside the gate and the auto-consent handler
notConsentVars == <<lifeVars, outVars, regVars, callVars, cfgVars, adapterVars>>

\* the state outside the outbound primitives
notOutVars == <<gateVars, lifeVars, consentVars, regVars, callVars, cfgVars, adapterVars>>

\* the state outside the registration engine
notRegVars == <<gateVars, lifeVars, consentVars, outVars, callVars, cfgVars, adapterVars>>

\* the state outside the calls of the resolution functions and the command
notCallVars == <<gateVars, lifeVars, consentVars, outVars, regVars, cfgVars, adapterVars>>

\* the state outside the live configuration
notCfgVars == <<gateVars, lifeVars, consentVars, outVars, regVars, callVars, adapterVars>>

\* the state outside the gate and the plugin's outbound adapter
notAdapterVars == <<lifeVars, consentVars, outVars, regVars, callVars, cfgVars>>

vars == <<gateVars, restVars>>

NoGate == [commandAuthorized |-> FALSE, shouldBlock |-> FALSE]
NoAuthorizer == [configured |-> FALSE, allowed |-> FALSE]
NoConfig ==
  [dmPolicy |-> "undefined", allowFrom |-> <<>>,
   groupPolicy |-> "undefined", groupAllowFrom |-> <<>>]

IdleHandler ==
  [pc |-> "idle", ev |-> "text", sender |-> <<>>, inboxId |-> <<>>, isDm |-> FALSE,
   seq |-> 0, config |-> NoConfig, policy |-> "none", conf |-> <<>>,
   persisted |-> {}, authPersisted |-> {}, eff |-> <<>>, allowed |-> FALSE,
   authorizer |-> NoAuthorizer, hasControlCommand |-> FALSE, gate |-> NoGate,
   envAuth |-> FALSE, upKey |-> NoKey, created |-> FALSE, delivered |-> 0,
   err |-> "none", log |-> <<>>]

SenderIds == {IF x.address # Undefined THEN ToLowerCase(x.address) ELSE x.inboxId : x \in Senders}

\* the accounts of the gateway
Accounts == {"a1", "a2"}

RunIds == 1..MaxRuns
StopIds == 1..MaxStops

\* no error (lastStartError = null, nothing thrown)
NoError == <<"none", 0>>

\* a startAccount invocation that has not been made
IdleRun ==
  [pc |-> "idle", acct |-> "none", attempt |-> 0, tries |-> <<>>, slept |-> <<>>,
   reported |-> <<>>, lastStartError |-> NoError, thrown |-> NoError,
   bus |-> "none", aborted |-> FALSE, waited |-> FALSE, events |-> <<>>]

\* a stopAccount invocation that has not been made
IdleStop == [pc |-> "idle", acct |-> "none", bus |-> 0]

\* activeBuses = new Map()
NoBus == 0

LifeInit ==
  /\ runs = [r \in RunIds |-> IdleRun]
  /\ stops = [k \in StopIds |-> IdleStop]
  /\ activeBuses = [a \in Accounts |-> NoBus]

\* no conversation event has been handled
NoConsent ==
  [sender |-> <<>>, known |-> FALSE, isDm |-> FALSE, config |-> NoConfig,
   store |-> {}, state |-> "none", err |-> "none"]

ConsentInit == consents = NoConsent

OutInit == calls = <<>>

\* no invocation of register has been made
IdleRegister ==
  [pc |-> "idle", targets |-> <<>>, dryRun |-> FALSE, i |-> 0, fee |-> 0,
   feeReads |-> <<>>, txs |-> <<>>, receipts |-> <<>>, caught |-> <<>>,
   chainResults |-> <<>>]

RegInit == reg = IdleRegister

\* no call has been made
IdleCall == [pc |-> "idle"]

CallInit == tgt = IdleCall /\ uri = IdleCall /\ cmd = IdleCall /\ account = IdleCall

\* the session started under configuration c, which has not been edited
StartedUnder(c) == [atStart |-> c, now |-> c, edits |-> <<>>]

CfgInit == liveCfg = StartedUnder(NoConfig)

\* the state outside the per-message gate and the live configuration
AdapterInit == adapter = IdleCall

QuietInit == LifeInit /\ ConsentInit /\ OutInit /\ RegInit /\ CallInit /\ AdapterInit

RestInit == QuietInit /\ CfgInit

Init ==
  /\ allowStore = {}
  /\ pending = {}
  /\ handlers = [h \in {"h1"} |-> IdleHandler]
  /\ codesSent = [id \in SenderIds |-> 0]
  /\ approvedEver = {}
  /\ crashed = FALSE
  /\ msgs = 0
  /\ RestInit


(***************************************************************************)
(* onMessage, up to its first suspension                                   *)
(***************************************************************************)
\* freshAccount.config.dmPolicy ?? "pairing"
DmPolicyOf(config) ==
  IF config.dmPolicy = "undefined" THEN "pairing" ELSE config.dmPolicy

\* freshAccount.config.groupPolicy ?? "open"
GroupPolicyOf(config) ==
  IF config.groupPolicy = "undefined" THEN "open" ELSE config.groupPolicy

\* senderAddress ?? senderInboxId, the address lower-cased by the bus
EffectiveSenderIdentifier(sender) ==
  IF sender.address # Undefined THEN ToLowerCase(sender.address) ELSE sender.inboxId

\* the allow entries the configuration gives for a conversation kind
ConfiguredAllowFrom(config) == NormalizeAllowEntries(config.allowFrom)

\* ConfiguredGroupAllowFrom that reads the DM allowFrom
ConfiguredGroupAllowFromDm(config) == NormalizeAllowEntries(config.allowFrom)

ConfiguredGroupAllowFrom(config) == NormalizeAllowEntries(config.groupAllowFrom)

\* the context label of the catch clause of each event handler
ErrorLabel(ev) ==
  CASE ev = "text" -> "handle text message"
    [] ev = "reply" -> "handle reply message"
    [] ev = "markdown" -> "handle markdown message"

\* Caught with the markdown handler left without its catch clause
CaughtExceptMarkdown(ev) == ev # "markdown"

\* the catch clause of an event handler: the error goes to onError
Caught(ev) == TRUE

\* the state of a handler in which an error reached the handler's catch clause
Failed(s) == [s EXCEPT !.pc = "done", !.err = ErrorLabel(s.ev)]

Done(s) == [s EXCEPT !.pc = "done"]

\* the handler invocation for a new event
Fresh(ev, sender, isDm) ==
  [IdleHandler EXCEPT !.ev = ev, !.isDm = isDm,
                      !.sender = EffectiveSenderIdentifier(sender),
                      !.inboxId = sender.inboxId]

\* GroupEntry that matches the sender under the open policy too
GroupEntryOpenToGate(policy) ==
  CASE policy = "disabled" -> "done"
    [] OTHER -> "groupGate"

\* where a group message goes after the policy is read
GroupEntry(policy) ==
  CASE policy = "disabled" -> "done"
    [] policy = "allowlist" -> "groupGate"
    [] OTHER -> "groupAuth"

\* the fields of freshAccount.config that the branch of a conversation kind reads
ConfigRead(config, isDm) ==
  IF isDm
  THEN [NoConfig EXCEPT !.dmPolicy = config.dmPolicy, !.allowFrom = config.allowFrom]
  ELSE [NoConfig EXCEPT !.groupPolicy = config.groupPolicy,
                        !.groupAllowFrom = config.groupAllowFrom]

\* onMessage from its start to the first store read
Begin(fresh, isDm, text, config) ==
  LET s == [fresh EXCEPT !.config = ConfigRead(config, isDm)]
      rawBody == Trim(text)
  IN IF rawBody = <<>> THEN Done(fresh)
     ELSE IF isDm
          THEN [s EXCEPT !.log = <<"inbound">>, !.pc = "dmRead",
                         !.policy = DmPolicyOf(config),
                         !.conf = ConfiguredAllowFrom(config)]
          ELSE [s EXCEPT !.log = <<"inbound">>,
                         !.pc = GroupEntry(GroupPolicyOf(config)),
                         !.policy = GroupPolicyOf(config),
                         !.conf = ConfiguredGroupAllowFrom(config)]

\* FromSelf that lets the account's own messages through
FromSelfNever(sender) == FALSE

\* filter.fromSelf(message, client): the sender is the account's own inbox
FromSelf(sender) == sender.inboxId = Agent.inboxId

\* the event handler drops a reply whose text cannot be extracted or is blank
DroppedByBus(ev, text) == ev = "reply" /\ (text = Undefined \/ Trim(text) = <<>>)

\* an inbound event: its kind, sender, conversation kind and content, whether
\* getSenderAddress fails, and what runtime.config.loadConfig() returns for it
Events(dmConfigs, groupConfigs) ==
  [ev : EventKinds, sender : Senders \ {Agent}, isDm : {TRUE}, text : {Body},
   addressFails : {FALSE}, config : dmConfigs]
  \cup [ev : EventKinds, sender : Senders \ {Agent}, isDm : {FALSE}, text : {Body},
        addressFails : {FALSE}, config : groupConfigs]
  \cup [ev : EventKinds, sender : {Agent}, isDm : BOOLEAN, text : {Body},
        addressFails : {FALSE}, config : {NoConfig}]
  \cup [ev : EventKinds, sender : Senders \ {Agent}, isDm : BOOLEAN, text : {Body},
        addressFails : {TRUE}, config : {NoConfig}]
  \cup [ev : EventKinds, sender : Senders \ {Agent}, isDm : BOOLEAN, text : {<<" ">>},
        addressFails : {FALSE}, config : {NoConfig}]
  \cup [ev : {"reply"}, sender : Senders \ {Agent}, isDm : BOOLEAN, text : {Undefined},
        addressFails : {FALSE}, config : {NoConfig}]

\* the invocations that never ran are taken in a fixed order
HandlerBefore(g, h) == g = "h1" /\ h = "h2"

\* an inbound text, reply or markdown event reaches its handler
Receive(h, e) ==
  /\ ~crashed
  /\ msgs < MaxMsgs
  /\ handlers[h].pc \in {"idle", "done"}
  /\ \A g \in DOMAIN handlers :
       HandlerBefore(g, h) => handlers[g].pc # "idle"
  /\ msgs' = msgs + 1
  /\ LET s == [Fresh(e.ev, e.sender, e.isDm) EXCEPT !.seq = msgs + 1]
     IN IF FromSelf(e.sender)
        THEN handlers' = [handlers EXCEPT ![h] = Done(s)] /\ crashed' = crashed
        ELSE IF e.addressFails
             THEN /\ handlers' = [handlers EXCEPT ![h] =
                                    IF Caught(e.ev) THEN Failed(s) ELSE Done(s)]
                  /\ crashed' = ~Caught(e.ev)
        ELSE IF DroppedByBus(e.ev, e.text)
             THEN handlers' = [handlers EXCEPT ![h] = Done(s)] /\ crashed' = crashed
        ELSE /\ handlers' = [handlers EXCEPT ![h] =
                               Begin(s, e.isDm, e.text, e.config)]
             /\ crashed' = crashed
  /\ UNCHANGED <<allowStore, pending, codesSent, approvedEver>>
  /\ UNCHANGED restVars

(***************************************************************************)
(* The gate                                                                *)
(***************************************************************************)
Logged(s, event) == [s EXCEPT !.log = Append(s.log, event)]

Has(s, event) == event \in Range(s.log)

\* ReadFailureCaught without the catch
ReadFailureUncaught == FALSE

\* readAllowFromStore(...).catch(...): the rejection of a read is caught
ReadFailureCaught == TRUE

\* what the store read yields: the entries, or none after a caught failure
StoreEntries(readOk, store) == IF readOk THEN SetToSeq(store) ELSE <<>>

\* EffectiveAllowFrom that leaves the persisted entries out
EffectiveAllowFromConfiguredOnly(configured, storeEntries) == configured

\* [...configuredAllowFrom, ...storeAllowFrom]
EffectiveAllowFrom(configured, storeEntries) ==
  configured \o NormalizeAllowEntries(storeEntries)

\* the handler after the store read of the policy gate (forPolicy) or of the
\* group command gating: the effective allowlist and the match of the sender
AfterRead(s, readOk, store, forPolicy) ==
  LET entries == StoreEntries(readOk, store)
      eff == EffectiveAllowFrom(s.conf, entries)
      event == IF forPolicy THEN (IF readOk THEN "read" ELSE "readFailed")
               ELSE (IF readOk THEN "authRead" ELSE "authReadFailed")
      s1 == [Logged(s, event)
               EXCEPT !.eff = eff,
                      !.persisted = IF forPolicy THEN Range(entries) ELSE @,
                      !.authPersisted = Range(entries),
                      !.allowed = ResolveAllowlistMatchSimple(eff, s.sender).allowed]
  IN IF ~readOk /\ ~ReadFailureCaught THEN Failed(Logged(s, event)) ELSE s1

\* DmDecision without the return for the disabled policy
DmDecisionWithoutDisabled(policy, allowed) ==
  IF policy # "open" /\ ~allowed
  THEN (IF policy = "pairing" THEN "pair" ELSE "drop")
  ELSE "proceed"

\* DmDecision that asks for a match under the open policy too
DmDecisionOpenNeedsMatch(policy, allowed) ==
  IF policy = "disabled" THEN "drop"
  ELSE IF ~allowed
       THEN (IF policy = "pairing" THEN "pair" ELSE "drop")
  ELSE "proceed"

\* the DM policy branches: drop, pairing bootstrap, or on to command gating
DmDecision(policy, allowed) ==
  IF policy = "disabled" THEN "drop"
  ELSE IF policy # "open" /\ ~allowed
       THEN (IF policy = "pairing" THEN "pair" ELSE "drop")
  ELSE "proceed"

\* the group allowlist branch: a sender that does not match is dropped
GroupDecision(allowed) == IF ~allowed THEN "drop" ELSE "proceed"

\* the authorizer handed to the command gate
AuthorizerOf(eff, allowed) == [configured |-> Len(eff) > 0, allowed |-> allowed]

\* BlockedByGate without the early return
BlockedByGateNever(gate) == FALSE

\* commandGate.shouldBlock decides the early return
BlockedByGate(gate) == gate.shouldBlock

\* CommandAuthorized of the context envelope
EnvelopeCommandAuthorized(gate) == gate.commandAuthorized

\* command gating and the construction of the context envelope
CommandGate(s, in) ==
  LET authorizer == AuthorizerOf(s.eff, s.allowed)
      gate == ResolveControlCommandGate(in.useAccessGroups, authorizer,
                                        in.allowTextCommands, in.hasControlCommand)
      s1 == [Logged(s, "gate") EXCEPT !.authorizer = authorizer,
                                      !.hasControlCommand = in.hasControlCommand,
                                      !.gate = gate]
  IN IF BlockedByGate(gate) THEN Done(s1)
     ELSE [s1 EXCEPT !.pc = "session", !.envAuth = EnvelopeCommandAuthorized(gate)]

\* DM: the store read returns, the policy is applied
DmRead(h, readOk) ==
  /\ handlers[h].pc = "dmRead"
  /\ LET s == AfterRead(handlers[h], readOk, allowStore, TRUE)
         decision == IF s.pc = "done" THEN "drop" ELSE DmDecision(s.policy, s.allowed)
     IN CASE decision = "drop" -> handlers' = [handlers EXCEPT ![h] = Done(s)]
          [] decision = "pair" -> handlers' = [handlers EXCEPT ![h] = [s EXCEPT !.pc = "upsert"]]
          [] OTHER -> \E in \in GateInputs :
                        handlers' = [handlers EXCEPT ![h] = CommandGate(s, in)]
  /\ UNCHANGED <<allowStore, pending, codesSent, approvedEver, crashed, msgs>>
  /\ UNCHANGED restVars

\* UpsertKey that keys the request by the inbox identifier only
UpsertKeyByInbox(s) == PairingKey("xmtp", s.inboxId, AccountId)

\* the key of the pairing request of a handler's sender
UpsertKey(s) == PairingKey("xmtp", s.sender, AccountId)

\* SendsPairingReply without the test of created
SendsPairingReplyAlways(created) == TRUE

\* if (created) { ... send the pairing reply ... }
SendsPairingReply(created) == created

\* upsertPairingRequest returns or throws (caught by the pairing try block)
Upsert(h, ok) ==
  /\ handlers[h].pc = "upsert"
  /\ LET s == handlers[h]
         key == UpsertKey(s)
         created == key \notin pending
     IN IF ok
        THEN /\ pending' = pending \cup {key}
             /\ handlers' = [handlers EXCEPT ![h] =
                  [Logged(s, "upsert") EXCEPT !.upKey = key, !.created = created,
                      !.pc = IF SendsPairingReply(created) THEN "sendCode" ELSE "done"]]
        ELSE /\ pending' = pending
             /\ handlers' = [handlers EXCEPT ![h] = Done(Logged(s, "upsertFailed"))]
  /\ UNCHANGED <<allowStore, codesSent, approvedEver, crashed, msgs>>
  /\ UNCHANGED restVars

\* bus.sendText(conversationId, reply) of the pairing code, then the activity record
SendCode(h, ok) ==
  /\ handlers[h].pc = "sendCode"
  /\ LET s == handlers[h]
     IN IF ok
        THEN /\ codesSent' = [codesSent EXCEPT ![s.sender] = @ + 1]
             /\ handlers' = [handlers EXCEPT ![h] =
                               Done(Logged(Logged(s, "code"), "outbound"))]
        ELSE /\ codesSent' = codesSent
             /\ handlers' = [handlers EXCEPT ![h] = Done(Logged(s, "codeFailed"))]
  /\ UNCHANGED <<allowStore, pending, approvedEver, crashed, msgs>>
  /\ UNCHANGED restVars

\* group, policy allowlist: the store read returns, the sender is matched
GroupGate(h, readOk) ==
  /\ handlers[h].pc = "groupGate"
  /\ LET s == AfterRead(handlers[h], readOk, allowStore, TRUE)
     IN handlers' = [handlers EXCEPT ![h] =
          IF s.pc = "done" \/ GroupDecision(s.allowed) = "drop" THEN Done(s)
          ELSE [s EXCEPT !.pc = "groupAuth"]]
  /\ UNCHANGED <<allowStore, pending, codesSent, approvedEver, crashed, msgs>>
  /\ UNCHANGED restVars

\* group command gating: the store is read (again) for the authorizer
GroupAuth(h, readOk) ==
  /\ handlers[h].pc = "groupAuth"
  /\ LET s == AfterRead(handlers[h], readOk, allowStore, FALSE)
     IN IF s.pc = "done" THEN handlers' = [handlers EXCEPT ![h] = s]
        ELSE \E in \in GateInputs :
               handlers' = [handlers EXCEPT ![h] = CommandGate(s, in)]
  /\ UNCHANGED <<allowStore, pending, codesSent, approvedEver, crashed, msgs>>
  /\ UNCHANGED restVars


(***************************************************************************)
(* Dispatch to the responder                                               *)
(***************************************************************************)
\* Session in which a record error ends the handling of the message
SessionStopsOnError(h, recordOk) ==
  /\ handlers[h].pc = "session"
  /\ handlers' = [handlers EXCEPT ![h] =
       IF recordOk THEN [Logged(handlers[h], "session") EXCEPT !.pc = "dispatch"]
       ELSE Failed(Logged(handlers[h], "sessionError"))]
  /\ UNCHANGED <<allowStore, pending, codesSent, approvedEver, crashed, msgs>>
  /\ UNCHANGED restVars

\* recordInboundSession; a record error goes to onRecordError
Session(h, recordOk) ==
  /\ handlers[h].pc = "session"
  /\ handlers' = [handlers EXCEPT ![h] =
       [Logged(handlers[h], IF recordOk THEN "session" ELSE "sessionError")
          EXCEPT !.pc = "dispatch"]]
  /\ UNCHANGED <<allowStore, pending, codesSent, approvedEver, crashed, msgs>>
  /\ UNCHANGED restVars

\* dispatchReplyWithBufferedBlockDispatcher is called with the envelope
Dispatch(h) ==
  /\ handlers[h].pc = "dispatch"
  /\ handlers' = [handlers EXCEPT ![h] =
       [Logged(handlers[h], "dispatch") EXCEPT !.pc = "deliver"]]
  /\ UNCHANGED <<allowStore, pending, codesSent, approvedEver, crashed, msgs>>
  /\ UNCHANGED restVars

\* reply payloads: the converted text and the replyToId of the payload
Payloads == [message : {<<>>, <<"o", "k">>}, replyToId : {Undefined, <<" ">>, <<"m", "1">>}]

\* typeof payload.replyToId === "string" ? payload.replyToId.trim() : ""
ReplyTarget(payload) ==
  IF payload.replyToId = Undefined THEN <<>> ELSE Trim(payload.replyToId)

\* DeliverStep that records the outbound activity before the send
DeliverStepRecordsFirst(s, payload, ok) ==
  LET s1 == Logged([s EXCEPT !.delivered = @ + 1], "outbound")
  IN IF payload.message = <<>> THEN [s EXCEPT !.delivered = @ + 1]
     ELSE IF ~ok THEN Logged(s1, "deliverFailed")
     ELSE IF ReplyTarget(payload) # <<>> THEN Logged(s1, "sendReply")
          ELSE Logged(s1, "sendText")

\* the deliver callback for one payload; a failed send goes to the dispatcher's onError
DeliverStep(s, payload, ok) ==
  LET s1 == [s EXCEPT !.delivered = @ + 1]
  IN IF payload.message = <<>> THEN s1
     ELSE IF ~ok THEN Logged(s1, "deliverFailed")
     ELSE IF ReplyTarget(payload) # <<>>
          THEN Logged(Logged(s1, "sendReply"), "outbound")
          ELSE Logged(Logged(s1, "sendText"), "outbound")

Deliver(h, payload, ok) ==
  /\ handlers[h].pc = "deliver"
  /\ handlers[h].delivered < MaxDeliver
  /\ handlers' = [handlers EXCEPT ![h] = DeliverStep(handlers[h], payload, ok)]
  /\ UNCHANGED <<allowStore, pending, codesSent, approvedEver, crashed, msgs>>
  /\ UNCHANGED restVars

\* the dispatch call settles: it resolves, or rejects into the handler's catch clause
Finish(h, ok) ==
  /\ handlers[h].pc = "deliver"
  /\ handlers' = [handlers EXCEPT ![h] =
       IF ok \/ ~Caught(handlers[h].ev) THEN Done(handlers[h]) ELSE Failed(handlers[h])]
  /\ crashed' = (crashed \/ (~ok /\ ~Caught(handlers[h].ev)))
  /\ UNCHANGED <<allowStore, pending, codesSent, approvedEver, msgs>>
  /\ UNCHANGED restVars

(***************************************************************************)
(* Environment: pairing approval                                           *)
(***************************************************************************)
\* the owner approves a pairing request: the sender enters the persisted allowlist
Approve(key) ==
  /\ key \in pending
  /\ pending' = pending \ {key}
  /\ allowStore' = allowStore \cup {key.id}
  /\ approvedEver' = approvedEver \cup {key.id}
  /\ UNCHANGED <<handlers, codesSent, crashed, msgs>>
  /\ UNCHANGED restVars

Next ==
  \/ \E h \in DOMAIN handlers, e \in Events(DmConfigs, GroupConfigs) : Receive(h, e)
  \/ \E h \in DOMAIN handlers, readOk \in BOOLEAN : DmRead(h, readOk)
  \/ \E h \in DOMAIN handlers, ok \in BOOLEAN : Upsert(h, ok)
  \/ \E h \in DOMAIN handlers, ok \in BOOLEAN : SendCode(h, ok)
  \/ \E h \in DOMAIN handlers, readOk \in BOOLEAN : GroupGate(h, readOk)
  \/ \E h \in DOMAIN handlers, readOk \in BOOLEAN : GroupAuth(h, readOk)
  \/ \E h \in DOMAIN handlers, recordOk \in BOOLEAN : Session(h, recordOk)
  \/ \E h \in DOMAIN handlers : Dispatch(h)
  \/ \E h \in DOMAIN handlers, payload \in Payloads, ok \in BOOLEAN : Deliver(h, payload, ok)
  \/ \E h \in DOMAIN handlers, ok \in BOOLEAN : Finish(h, ok)
  \/ \E key \in pending : Approve(key)

\* one worker per account: the events of an account are handled one at a time
Spec == Init /\ [][Next]_vars

(***************************************************************************)
(* Two invocations of the handlers overlapping at their suspension points, *)
(* for direct messages that arrive under the pairing policy                *)
(***************************************************************************)
PairingConfigs ==
  [dmPolicy : {"pairing"}, allowFrom : {<<BlankEntry>>},
   groupPolicy : {"undefined"}, groupAllowFrom : {<<>>}]

PairingEvents == {e \in Events(PairingConfigs, {}) : e.isDm}

InitInterleaved ==
  /\ allowStore = {}
  /\ pending = {}
  /\ handlers = [h \in {"h1", "h2"} |-> IdleHandler]
  /\ codesSent = [id \in SenderIds |-> 0]
  /\ approvedEver = {}
  /\ crashed = FALSE
  /\ msgs = 0
  /\ RestInit

NextInterleaved ==
  \/ \E h \in DOMAIN handlers, e \in PairingEvents : Receive(h, e)
  \/ \E h \in DOMAIN handlers, readOk \in BOOLEAN : DmRead(h, readOk)
  \/ \E h \in DOMAIN handlers, ok \in BOOLEAN : Upsert(h, ok)
  \/ \E h \in DOMAIN handlers, ok \in BOOLEAN : SendCode(h, ok)
  \/ \E h \in DOMAIN handlers, recordOk \in BOOLEAN : Session(h, recordOk)
  \/ \E h \in DOMAIN handlers : Dispatch(h)
  \/ \E h \in DOMAIN handlers, payload \in Payloads, ok \in BOOLEAN : Deliver(h, payload, ok)
  \/ \E h \in DOMAIN handlers, ok \in BOOLEAN : Finish(h, ok)
  \/ \E key \in pending : Approve(key)

SpecInterleaved == InitInterleaved /\ [][NextInterleaved]_vars

TypeOK ==
  /\ allowStore \subseteq SenderIds
  /\ msgs \in 0..MaxMsgs
  /\ crashed \in BOOLEAN
  /\ \A h \in DOMAIN handlers : handlers[h].pc \in
       {"idle", "dmRead", "upsert", "sendCode", "groupGate", "groupAuth",
        "session", "dispatch", "deliver", "done"}


(***************************************************************************)
(* Auto-consent: the conversation handler of the bus and shouldConsentDm   *)
(***************************************************************************)
\* ConfiguredAllowIncludes matched against the configured and the persisted entries
EffectiveAllowIncludes(config, store, senderAddress) ==
  LET eff == EffectiveAllowFrom(ConfiguredAllowFrom(config), SetToSeq(store))
  IN senderAddress \in Range(eff) \/ Wildcard \in Range(eff)

\* configuredAllow.includes(senderAddress) || configuredAllow.includes("*")
ConfiguredAllowIncludes(config, store, senderAddress) ==
  LET configuredAllow == ConfiguredAllowFrom(config)
  IN senderAddress \in Range(configuredAllow) \/ Wildcard \in Range(configuredAllow)

\* shouldConsentDm of startAccount, under the configuration loaded at the call
ShouldConsentDm(config, store, senderAddress) ==
  LET policy == DmPolicyOf(config)
  IN IF policy = "disabled" THEN FALSE
     ELSE IF policy = "open" \/ policy = "pairing" THEN TRUE
     ELSE ConfiguredAllowIncludes(config, store, senderAddress)

\* a conversation event: its sender, its kind, whether getSenderAddress fails,
\* and what runtime.config.loadConfig() returns for it
ConversationEvents ==
  [sender : Senders \ {Agent}, isDm : {TRUE}, addressFails : {FALSE}, config : DmConfigs]
  \cup [sender : Senders \ {Agent}, isDm : {FALSE}, addressFails : {FALSE},
        config : {NoConfig}]
  \cup [sender : Senders \ {Agent}, isDm : {TRUE}, addressFails : {TRUE},
        config : {NoConfig}]

\* the "conversation" handler: a direct conversation is allowed when the sender
\* address is unknown or shouldConsentDm says so; an error goes to onError
Conversation(e) ==
  /\ ~crashed
  /\ msgs < MaxMsgs
  /\ msgs' = msgs + 1
  /\ consents' =
       LET c == [NoConsent EXCEPT !.sender = EffectiveSenderIdentifier(e.sender),
                                  !.known = e.sender.address # Undefined,
                                  !.isDm = e.isDm,
                                  !.config = ConfigRead(e.config, TRUE),
                                  !.store = allowStore]
       IN IF ~e.isDm THEN c
          ELSE IF e.addressFails THEN [c EXCEPT !.err = "auto-consent conversation",
                                                !.state = "error"]
          ELSE IF e.sender.address = Undefined THEN [c EXCEPT !.state = "allowed"]
          ELSE IF ShouldConsentDm(e.config, allowStore, ToLowerCase(e.sender.address))
               THEN [c EXCEPT !.state = "allowed"]
               ELSE [c EXCEPT !.state = "refused"]
  /\ UNCHANGED <<allowStore, pending, handlers, codesSent, approvedEver, crashed>>
  /\ UNCHANGED notConsentVars

NextConsent ==
  \/ \E e \in ConversationEvents : Conversation(e)
  \/ \E h \in DOMAIN handlers, e \in PairingEvents : Receive(h, e)
  \/ \E h \in DOMAIN handlers, readOk \in BOOLEAN : DmRead(h, readOk)
  \/ \E h \in DOMAIN handlers, ok \in BOOLEAN : Upsert(h, ok)
  \/ \E h \in DOMAIN handlers, ok \in BOOLEAN : SendCode(h, ok)
  \/ \E h \in DOMAIN handlers, recordOk \in BOOLEAN : Session(h, recordOk)
  \/ \E h \in DOMAIN handlers : Dispatch(h)
  \/ \E h \in DOMAIN handlers, payload \in Payloads, ok \in BOOLEAN : Deliver(h, payload, ok)
  \/ \E h \in DOMAIN handlers, ok \in BOOLEAN : Finish(h, ok)
  \/ \E key \in pending : Approve(key)

\* conversation events next to the direct messages of a pairing account
SpecConsent == Init /\ [][NextConsent]_vars

(***************************************************************************)
(* The account lifecycle: startAccount (open with retry, wait for the      *)
(* abort signal, teardown) and stopAccount                                 *)
(***************************************************************************)
DEFAULT_RETRY_ATTEMPTS == 3
RETRY_BASE_DELAY_MS == 2000

\* Math.pow(2, n)
RECURSIVE Pow2(_)
Pow2(n) == IF n = 0 THEN 1 ELSE 2 * Pow2(n - 1)

\* RetryDelay without the exponential factor
RetryDelayFlat(attempt) == RETRY_BASE_DELAY_MS

\* RETRY_BASE_DELAY_MS * Math.pow(2, attempt - 1)
RetryDelay(attempt) == RETRY_BASE_DELAY_MS * Pow2(attempt - 1)

\* the error an attempt of agent.start() rejects with
StartError(attempt) == <<"start", attempt>>

\* the label handed to onError for a failed attempt
AttemptLabel(attempt) == <<"start attempt", attempt, DEFAULT_RETRY_ATTEMPTS>>

\* the invocations that never ran are taken in a fixed order
NextIdle(f, i) == f[i].pc = "idle" /\ \A j \in DOMAIN f : j < i => f[j].pc # "idle"

\* startAccount is invoked for an account: the status is set, an account that
\* is not configured throws, otherwise startXmtpBus begins
StartAccount(r, acct, configured) ==
  /\ NextIdle(runs, r)
  /\ runs' = [runs EXCEPT ![r] =
       IF ~configured
       THEN [IdleRun EXCEPT !.pc = "threw", !.acct = acct,
                            !.thrown = <<"not configured", 0>>]
       ELSE [IdleRun EXCEPT !.pc = "start", !.acct = acct, !.attempt = 1]]
  /\ UNCHANGED <<stops, activeBuses, notLifeVars>>

\* SleepsAfter that sleeps after the last attempt too
SleepsAfterEvery(attempt) == TRUE

\* if (attempt < DEFAULT_RETRY_ATTEMPTS) { await sleep(delay) }
SleepsAfter(attempt) == attempt < DEFAULT_RETRY_ATTEMPTS

\* Opened that returns the handle without calling onConnect
OpenedUnannounced(run) ==
  [run EXCEPT !.tries = Append(@, TRUE), !.lastStartError = NoError, !.bus = "live",
              !.pc = IF run.aborted THEN "closing" ELSE "waiting",
              !.waited = ~run.aborted,
              !.events = Append(@, "handle")]

\* the run after agent.start() resolved: onConnect is called, the handle is
\* returned, the session is entered in the map, and the wait for the abort
\* signal begins (or is over at once when the signal has already fired)
Opened(run) ==
  [run EXCEPT !.tries = Append(@, TRUE), !.lastStartError = NoError, !.bus = "live",
              !.pc = IF run.aborted THEN "closing" ELSE "waiting",
              !.waited = ~run.aborted,
              !.events = @ \o <<"onConnect", "handle">>]

\* the run after agent.start() rejected on an attempt
AttemptFailed(run) ==
  LET a == run.attempt
      r1 == [run EXCEPT !.tries = Append(@, FALSE), !.lastStartError = StartError(a),
                        !.reported = Append(@, AttemptLabel(a))]
  IN IF SleepsAfter(a)
     THEN [r1 EXCEPT !.pc = "sleep", !.slept = Append(@, RetryDelay(a))]
     ELSE IF a + 1 <= DEFAULT_RETRY_ATTEMPTS
          THEN [r1 EXCEPT !.attempt = a + 1]
          ELSE [r1 EXCEPT !.pc = "threw", !.thrown = r1.lastStartError]

\* one attempt of agent.start() settles
StartAttempt(r, ok) ==
  /\ runs[r].pc = "start"
  /\ runs' = [runs EXCEPT ![r] = IF ok THEN Opened(runs[r]) ELSE AttemptFailed(runs[r])]
  /\ activeBuses' = IF ok THEN [activeBuses EXCEPT ![runs[r].acct] = r] ELSE activeBuses
  /\ UNCHANGED <<stops, notLifeVars>>

\* the sleep between two attempts is over: the loop goes to the next attempt,
\* or ends and the last error is thrown
Wake(r) ==
  /\ runs[r].pc = "sleep"
  /\ runs' = [runs EXCEPT ![r] =
       IF runs[r].attempt + 1 <= DEFAULT_RETRY_ATTEMPTS
       THEN [@ EXCEPT !.pc = "start", !.attempt = @ + 1]
       ELSE [@ EXCEPT !.pc = "threw", !.thrown = runs[r].lastStartError]]
  /\ UNCHANGED <<stops, activeBuses, notLifeVars>>

\* the abort signal of a run fires; a run that waits for it goes on to teardown
Abort(r) ==
  /\ runs[r].pc \in {"start", "sleep", "waiting"}
  /\ ~runs[r].aborted
  /\ runs' = [runs EXCEPT ![r] =
       [@ EXCEPT !.aborted = TRUE,
                 !.pc = IF runs[r].pc = "waiting" THEN "closing" ELSE @]]
  /\ UNCHANGED <<stops, activeBuses, notLifeVars>>

\* the session of a run after a close on it settled
AfterClose(bus, ok) ==
  IF ok THEN "closed" ELSE IF bus = "closed" THEN "closed" ELSE "closeFailed"

\* EntryAfterClose that deletes the entry whether or not close threw
EntryAfterCloseAlways(map, acct, ok) == [map EXCEPT ![acct] = NoBus]

\* await bus.close(); activeBuses.delete(id): the delete runs when close returned
EntryAfterClose(map, acct, ok) == IF ok THEN [map EXCEPT ![acct] = NoBus] ELSE map

\* teardown of startAccount: bus.close() settles, the entry is deleted, the run returns
Teardown(r, ok) ==
  /\ runs[r].pc = "closing"
  /\ runs' = [runs EXCEPT ![r] =
       [@ EXCEPT !.bus = AfterClose(@, ok),
                 !.pc = IF ok THEN "returned" ELSE "threw",
                 !.thrown = IF ok THEN @ ELSE <<"close", 0>>]]
  /\ activeBuses' = EntryAfterClose(activeBuses, runs[r].acct, ok)
  /\ UNCHANGED <<stops, notLifeVars>>

\* stopAccount is invoked: without an account id or without an entry it returns,
\* with an entry it closes the session of the entry
StopAccount(k, acct) ==
  /\ NextIdle(stops, k)
  /\ stops' = [stops EXCEPT ![k] =
       IF acct = "undefined" \/ activeBuses[acct] = NoBus
       THEN [pc |-> "done", acct |-> acct, bus |-> NoBus]
       ELSE [pc |-> "closing", acct |-> acct, bus |-> activeBuses[acct]]]
  /\ UNCHANGED <<runs, activeBuses, notLifeVars>>

\* stopAccount: bus.close() settles, the entry is deleted
StopClosed(k, ok) ==
  /\ stops[k].pc = "closing"
  /\ stops' = [stops EXCEPT ![k].pc = IF ok THEN "done" ELSE "threw"]
  /\ runs' = [runs EXCEPT ![stops[k].bus].bus = AfterClose(@, ok)]
  /\ activeBuses' = EntryAfterClose(activeBuses, stops[k].acct, ok)
  /\ UNCHANGED notLifeVars

GateInit ==
  /\ allowStore = {}
  /\ pending = {}
  /\ handlers = [h \in {"h1"} |-> IdleHandler]
  /\ codesSent = [id \in SenderIds |-> 0]
  /\ approvedEver = {}
  /\ crashed = FALSE
  /\ msgs = 0

InitLifecycle == GateInit /\ RestInit

NextLifecycle ==
  \/ \E r \in RunIds, acct \in Accounts, configured \in BOOLEAN :
       StartAccount(r, acct, configured)
  \/ \E r \in RunIds, ok \in BOOLEAN : StartAttempt(r, ok)
  \/ \E r \in RunIds : Wake(r)
  \/ \E r \in RunIds : Abort(r)
  \/ \E r \in RunIds, ok \in BOOLEAN : Teardown(r, ok)
  \/ \E k \in StopIds, acct \in Accounts \cup {"undefined"} : StopAccount(k, acct)
  \/ \E k \in StopIds, ok \in BOOLEAN : StopClosed(k, ok)

SpecLifecycle == InitLifecycle /\ [][NextLifecycle]_vars

\* the abort signal fires for every run, and every await of a run settles
FairLifecycle ==
  /\ \A r \in RunIds : WF_vars(Abort(r))
  /\ \A r \in RunIds : WF_vars(Wake(r))
  /\ \A r \in RunIds : WF_vars(\E ok \in BOOLEAN : StartAttempt(r, ok))
  /\ \A r \in RunIds : WF_vars(\E ok \in BOOLEAN : Teardown(r, ok))

SpecLifecycleFair == SpecLifecycle /\ FairLifecycle

(***************************************************************************)
(* Live configuration: the configuration is edited while the session runs  *)
(***************************************************************************)
\* the configurations an operator switches between
LiveConfigs ==
  { [dmPolicy |-> "open", allowFrom |-> <<Wildcard>>,
     groupPolicy |-> "open", groupAllowFrom |-> <<>>],
    [dmPolicy |-> "disabled", allowFrom |-> <<Wildcard>>,
     groupPolicy |-> "disabled", groupAllowFrom |-> <<UpperBob>>],
    [dmPolicy |-> "allowlist", allowFrom |-> <<PaddedAlice, BlankEntry>>,
     groupPolicy |-> "allowlist", groupAllowFrom |-> <<UpperBob>>],
    [dmPolicy |-> "pairing", allowFrom |-> <<BlankEntry>>,
     groupPolicy |-> "undefined", groupAllowFrom |-> <<>>] }

\* LoadConfig that answers with the account resolved when the session started
LoadConfigAtStart(live) == live.atStart

\* runtime.config.loadConfig() and resolveXmtpAccount at the start of a callback
LoadConfig(live) == live.now

\* the operator edits the configuration; the edit is kept with the number of
\* events handled before it
EditConfig(c) ==
  /\ Len(liveCfg.edits) < MaxEdits
  /\ c # liveCfg.now
  /\ liveCfg' = [liveCfg EXCEPT !.now = c,
                                !.edits = Append(@, [after |-> msgs, config |-> c])]
  /\ UNCHANGED notCfgVars

\* onMessage for a text event: the configuration is loaded when it is handled
ReceiveLive(h, sender, isDm) ==
  Receive(h, [ev |-> "text", sender |-> sender, isDm |-> isDm, text |-> Body,
              addressFails |-> FALSE, config |-> LoadConfig(liveCfg)])

\* shouldConsentDm for a new conversation: the configuration is loaded at the call
ConversationLive(sender) ==
  Conversation([sender |-> sender, isDm |-> TRUE, addressFails |-> FALSE,
                config |-> LoadConfig(liveCfg)])

InitLive ==
  /\ GateInit
  /\ QuietInit
  /\ \E c \in LiveConfigs : liveCfg = StartedUnder(c)

NextLive ==
  \/ \E c \in LiveConfigs : EditConfig(c)
  \/ \E h \in DOMAIN handlers, sender \in Senders \ {Agent}, isDm \in BOOLEAN :
       ReceiveLive(h, sender, isDm)
  \/ \E sender \in Senders \ {Agent} : ConversationLive(sender)
  \/ \E h \in DOMAIN handlers, readOk \in BOOLEAN : DmRead(h, readOk)
  \/ \E h \in DOMAIN handlers, ok \in BOOLEAN : Upsert(h, ok)
  \/ \E h \in DOMAIN handlers, ok \in BOOLEAN : SendCode(h, ok)
  \/ \E h \in DOMAIN handlers, readOk \in BOOLEAN : GroupGate(h, readOk)
  \/ \E h \in DOMAIN handlers, readOk \in BOOLEAN : GroupAuth(h, readOk)
  \/ \E h \in DOMAIN handlers, recordOk \in BOOLEAN : Session(h, recordOk)
  \/ \E h \in DOMAIN handlers : Dispatch(h)
  \/ \E h \in DOMAIN handlers, payload \in Payloads, ok \in BOOLEAN : Deliver(h, payload, ok)
  \/ \E h \in DOMAIN handlers, ok \in BOOLEAN : Finish(h, ok)
  \/ \E key \in pending : Approve(key)

SpecLive == InitLive /\ [][NextLive]_vars

(***************************************************************************)
(* Onboarding: the DM policy is set through the adapter while messages     *)
(* are handled                                                             *)
(***************************************************************************)
\* the policies the onboarding adapter offers
OnboardingPolicies == DmPolicies \ {"undefined"}

\* addWildcardAllowFrom(allowFrom): the entries with "*" among them
AddWildcardAllowFrom(allowFrom) ==
  IF \E i \in 1..Len(allowFrom) : allowFrom[i] = Wildcard
  THEN allowFrom
  ELSE Append(allowFrom, Wildcard)

\* setXmtpDmPolicy: { ...xmtp, dmPolicy, ...(allowFrom ? { allowFrom } : {}) }
SetXmtpDmPolicy(cfg, dmPolicy) ==
  [cfg EXCEPT !.dmPolicy = dmPolicy,
              !.allowFrom = IF dmPolicy = "open" THEN AddWildcardAllowFrom(@) ELSE @]

\* dmPolicy.setPolicy(cfg, policy) and the write of the result
SetPolicy(policy) ==
  /\ Len(liveCfg.edits) < MaxPolicies
  /\ liveCfg' = [liveCfg EXCEPT
       !.now = SetXmtpDmPolicy(@, policy),
       !.edits = Append(@, [after |-> msgs,
                            config |-> SetXmtpDmPolicy(liveCfg.now, policy)])]
  /\ UNCHANGED notCfgVars

\* the configurations onboarding starts from: no wildcard is listed
OnboardingConfigs ==
  [dmPolicy : {"undefined", "allowlist"}, allowFrom : {<<>>, <<PaddedAlice, BlankEntry>>},
   groupPolicy : {"allowlist"}, groupAllowFrom : {<<UpperBob>>}]

InitOnboarding ==
  /\ GateInit
  /\ QuietInit
  /\ \E c \in OnboardingConfigs : liveCfg = StartedUnder(c)

NextOnboarding ==
  \/ \E policy \in OnboardingPolicies : SetPolicy(policy)
  \/ \E h \in DOMAIN handlers, sender \in Senders \ {Agent} : ReceiveLive(h, sender, TRUE)
  \/ \E h \in DOMAIN handlers, readOk \in BOOLEAN : DmRead(h, readOk)
  \/ \E h \in DOMAIN handlers, ok \in BOOLEAN : Upsert(h, ok)
  \/ \E h \in DOMAIN handlers, ok \in BOOLEAN : SendCode(h, ok)
  \/ \E h \in DOMAIN handlers, recordOk \in BOOLEAN : Session(h, recordOk)
  \/ \E h \in DOMAIN handlers : Dispatch(h)
  \/ \E h \in DOMAIN handlers, ok \in BOOLEAN : Finish(h, ok)

SpecOnboarding == InitOnboarding /\ [][NextOnboarding]_vars

(***************************************************************************)
(* Outbound primitives of the bus handle: sendText and sendReply           *)
(***************************************************************************)
HexAny == HexLower \cup {"A", "B"}

\* /^0x[0-9a-fA-F]{40}$/.test(value.trim())
LooksLikeEthAddress(value) ==
  LET s == Trim(value)
  IN /\ Len(s) = 2 + AddrDigits
     /\ s[1] = "0"
     /\ s[2] = "x"
     /\ \A i \in 3..Len(s) : s[i] \in HexAny

NoConversation == <<"none">>

\* what the SDK offers and answers: where createDmWithAddress lives, and
\* whether the lookup or creation finds a conversation, finds none, or rejects
SdkShapes == {"agent", "conversations", "none"}
Lookups == {"found", "null", "rejects"}

\* resolveConversationForTarget: the conversation, or the error thrown
ResolveConversationForTarget(target, sdk, lookup) ==
  LET trimmedTarget == Trim(target)
  IN IF trimmedTarget = <<>>
     THEN [conv |-> NoConversation, err |-> "Target is required"]
     ELSE IF LooksLikeEthAddress(trimmedTarget)
     THEN IF sdk = "none"
          THEN [conv |-> NoConversation,
                err |-> "XMTP SDK does not support address-based DM creation"]
          ELSE CASE lookup = "found" ->
                      [conv |-> <<"dm", NormalizeEthAddress(trimmedTarget)>>, err |-> "none"]
                 [] lookup = "null" ->
                      [conv |-> NoConversation, err |-> "Conversation not found for address"]
                 [] OTHER -> [conv |-> NoConversation, err |-> "sdk error"]
     ELSE CASE lookup = "found" -> [conv |-> <<"id", trimmedTarget>>, err |-> "none"]
            [] lookup = "null" -> [conv |-> NoConversation, err |-> "Conversation not found"]
            [] OTHER -> [conv |-> NoConversation, err |-> "sdk error"]

\* a call on the bus handle before it did anything
NoCall ==
  [op |-> "none", reference |-> <<>>, resolves |-> 0, conv |-> NoConversation,
   attempts |-> <<>>, delivered |-> <<>>, threw |-> "none"]

\* a send on a conversation: the attempt, and the delivery when the send resolves
SendOn(call, conv, kind, reference, sendOk) ==
  LET message == [conv |-> conv, kind |-> kind, reference |-> reference]
  IN [call EXCEPT !.attempts = Append(@, message),
                  !.delivered = IF sendOk THEN Append(@, message) ELSE @,
                  !.threw = IF sendOk THEN @ ELSE "send failed"]

\* XmtpBusHandle.sendText
SendTextCall(target, sdk, lookup, sendOk) ==
  LET res == ResolveConversationForTarget(target, sdk, lookup)
      call == [NoCall EXCEPT !.op = "sendText", !.resolves = 1, !.conv = res.conv]
  IN IF res.err # "none" THEN [call EXCEPT !.threw = res.err]
     ELSE SendOn(call, res.conv, "text", <<>>, sendOk)

\* RequiresReference that takes the reference id untrimmed
RequiresReferenceUntrimmed(referenceMessageId) == referenceMessageId = <<>>

\* if (!trimmedReferenceMessageId) throw: the reference id is blank
RequiresReference(referenceMessageId) == Trim(referenceMessageId) = <<>>

\* XmtpBusHandle.sendReply
SendReplyCall(target, referenceMessageId, sdk, lookup, hasSendReply, sendOk) ==
  LET trimmedReferenceMessageId == Trim(referenceMessageId)
      call == [NoCall EXCEPT !.op = "sendReply", !.reference = trimmedReferenceMessageId]
  IN IF RequiresReference(referenceMessageId)
     THEN [call EXCEPT !.threw = "referenceMessageId is required"]
     ELSE LET res == ResolveConversationForTarget(target, sdk, lookup)
              c1 == [call EXCEPT !.resolves = 1, !.conv = res.conv]
          IN IF res.err # "none" THEN [c1 EXCEPT !.threw = res.err]
             ELSE IF hasSendReply
                  THEN SendOn(c1, res.conv, "reply", trimmedReferenceMessageId, sendOk)
                  ELSE SendOn(c1, res.conv, "text", <<>>, sendOk)

\* targets and reference ids handed to the bus handle
Targets == {<<>>, <<" ">>, <<"c", "1">>, <<" ">> \o AddrOf("A")}
ReferenceIds == {<<>>, <<" ">>, <<" ", " ">>, <<"m", "1">>, <<" ", "m", "1", " ">>}

SendText(target, sdk, lookup, sendOk) ==
  /\ Len(calls) < MaxCalls
  /\ calls' = Append(calls, SendTextCall(target, sdk, lookup, sendOk))
  /\ UNCHANGED notOutVars

SendReply(target, referenceMessageId, sdk, lookup, hasSendReply, sendOk) ==
  /\ Len(calls) < MaxCalls
  /\ calls' = Append(calls, SendReplyCall(target, referenceMessageId, sdk, lookup,
                                          hasSendReply, sendOk))
  /\ UNCHANGED notOutVars

NextOutbound ==
  \/ \E target \in Targets, sdk \in SdkShapes, lookup \in Lookups, sendOk \in BOOLEAN :
       SendText(target, sdk, lookup, sendOk)
  \/ \E target \in Targets, ref \in ReferenceIds, sdk \in SdkShapes, lookup \in Lookups,
        hasSendReply \in BOOLEAN, sendOk \in BOOLEAN :
       SendReply(target, ref, sdk, lookup, hasSendReply, sendOk)

InitOutbound == GateInit /\ RestInit

SpecOutbound == InitOutbound /\ [][NextOutbound]_vars

(***************************************************************************)
(* Activity recording: the gate next to the plugin's outbound.sendText      *)
(***************************************************************************)
\* typeof replyToId === "string" ? replyToId.trim() : ""
AdapterReplyTarget(replyToId) ==
  IF replyToId = Undefined THEN <<>> ELSE Trim(replyToId)

\* xmtpPlugin.outbound.sendText: the lookup of the session, the send on it, and
\* the outbound activity record after the send returned
OutboundSendTextCall(aid, bus, replyToId, sendOk) ==
  LET call == [pc |-> "done", aid |-> aid, replyToId |-> replyToId,
               log |-> <<>>, threw |-> "none"]
  IN IF bus = NoBus THEN [call EXCEPT !.threw = "XMTP bus not running"]
     ELSE IF ~sendOk THEN [call EXCEPT !.log = <<"sendFailed">>, !.threw = "send failed"]
     ELSE IF AdapterReplyTarget(replyToId) # <<>>
          THEN [call EXCEPT !.log = <<"sendReply", "outbound">>]
          ELSE [call EXCEPT !.log = <<"sendText", "outbound">>]

\* one call of outbound.sendText
OutboundSendText(aid, replyToId, sendOk) ==
  /\ adapter.pc = "idle"
  /\ adapter' = OutboundSendTextCall(aid, activeBuses[aid], replyToId, sendOk)
  /\ UNCHANGED <<gateVars, notAdapterVars>>

\* configurations under which a message is accepted or starts a pairing
ActivityDmConfigs ==
  [dmPolicy : {"open", "pairing"}, allowFrom : {<<BlankEntry>>},
   groupPolicy : {"undefined"}, groupAllowFrom : {<<>>}]

ActivityGroupConfigs ==
  [dmPolicy : {"open"}, allowFrom : {<<Wildcard>>},
   groupPolicy : {"open", "allowlist"}, groupAllowFrom : {<<UpperBob>>}]

ActivityEvents ==
  {e \in Events(ActivityDmConfigs, ActivityGroupConfigs) :
     e.ev = "text" /\ e.sender # Agent /\ ~e.addressFails /\ e.text = Body}

\* the session of account a1 is open: run 1 opened it at its first attempt
InitActivity ==
  /\ GateInit
  /\ runs = [r \in RunIds |->
               IF r = 1
               THEN Opened([IdleRun EXCEPT !.pc = "start", !.acct = "a1", !.attempt = 1])
               ELSE IdleRun]
  /\ stops = [k \in StopIds |-> IdleStop]
  /\ activeBuses = [a \in Accounts |-> IF a = "a1" THEN 1 ELSE NoBus]
  /\ ConsentInit /\ OutInit /\ RegInit /\ CallInit /\ CfgInit /\ AdapterInit

NextActivity ==
  \/ \E h \in DOMAIN handlers, e \in ActivityEvents : Receive(h, e)
  \/ \E h \in DOMAIN handlers, readOk \in BOOLEAN : DmRead(h, readOk)
  \/ \E h \in DOMAIN handlers, ok \in BOOLEAN : Upsert(h, ok)
  \/ \E h \in DOMAIN handlers, ok \in BOOLEAN : SendCode(h, ok)
  \/ \E h \in DOMAIN handlers, readOk \in BOOLEAN : GroupGate(h, readOk)
  \/ \E h \in DOMAIN handlers, readOk \in BOOLEAN : GroupAuth(h, readOk)
  \/ \E h \in DOMAIN handlers, recordOk \in BOOLEAN : Session(h, recordOk)
  \/ \E h \in DOMAIN handlers : Dispatch(h)
  \/ \E h \in DOMAIN handlers, payload \in Payloads, ok \in BOOLEAN : Deliver(h, payload, ok)
  \/ \E h \in DOMAIN handlers, ok \in BOOLEAN : Finish(h, ok)
  \/ /\ adapter.pc = "idle"
     /\ \E aid \in Accounts, replyToId \in {Undefined, <<" ">>, <<"m", "1">>},
           sendOk \in BOOLEAN : OutboundSendText(aid, replyToId, sendOk)

SpecActivity == InitActivity /\ [][NextActivity]_vars

(***************************************************************************)
(* Messages while the session starts: the handlers are registered before   *)
(* agent.start(), the handle is assigned after startXmtpBus returned       *)
(***************************************************************************)
\* agent.on(...) has run for the session of run r and the agent is not stopped
HandlersRegistered(r) == runs[r].pc \in {"start", "sleep", "waiting"}

\* const bus = await startXmtpBus(...): the binding is initialised once the
\* handle has been returned
HandleReturned(r) == \E i \in 1..Len(runs[r].events) : runs[r].events[i] = "handle"

\* an event reaches a handler of the session of run 1
ReceiveStarting(h, e) ==
  /\ HandlersRegistered(1)
  /\ Receive(h, e)

\* bus.sendText of the pairing code in the closure of startAccount: reading bus
\* before it is initialised throws into the catch clause of the pairing branch
SendCodeOnBus(h, ok) == SendCode(h, ok /\ HandleReturned(1))

\* bus.sendReply / bus.sendText in deliver: reading bus before it is
\* initialised throws, and the dispatcher reports the error
DeliverOnBus(h, payload, ok) == Deliver(h, payload, ok /\ HandleReturned(1))

StartupEvents == {e \in ActivityEvents : e.isDm}

\* startAccount of account a1 has registered the handlers and is about to make
\* the first attempt of agent.start()
InitStartup ==
  /\ GateInit
  /\ runs = [r \in RunIds |->
               IF r = 1 THEN [IdleRun EXCEPT !.pc = "start", !.acct = "a1", !.attempt = 1]
               ELSE IdleRun]
  /\ stops = [k \in StopIds |-> IdleStop]
  /\ activeBuses = [a \in Accounts |-> NoBus]
  /\ ConsentInit /\ OutInit /\ RegInit /\ CallInit /\ CfgInit /\ AdapterInit

NextStartup ==
  \/ \E ok \in BOOLEAN : StartAttempt(1, ok)
  \/ Wake(1)
  \/ \E h \in DOMAIN handlers, e \in StartupEvents : ReceiveStarting(h, e)
  \/ \E h \in DOMAIN handlers, readOk \in BOOLEAN : DmRead(h, readOk)
  \/ \E h \in DOMAIN handlers, ok \in BOOLEAN : Upsert(h, ok)
  \/ \E h \in DOMAIN handlers, ok \in BOOLEAN : SendCodeOnBus(h, ok)
  \/ \E h \in DOMAIN handlers, recordOk \in BOOLEAN : Session(h, recordOk)
  \/ \E h \in DOMAIN handlers : Dispatch(h)
  \/ \E h \in DOMAIN handlers, payload \in Payloads, ok \in BOOLEAN :
       DeliverOnBus(h, payload, ok)
  \/ \E h \in DOMAIN handlers, ok \in BOOLEAN : Finish(h, ok)

SpecStartup == InitStartup /\ [][NextStartup]_vars

(***************************************************************************)
(* The registration engine: registerXmtpAgentOnErc8004, per-chain loop     *)
(***************************************************************************)
\* the chains a target can name
Chains == {"mainnet", "base", "optimism"}

RECURSIVE SeqsNoRepeat(_, _)
\* the sequences of distinct elements of S of length 1..n
SeqsNoRepeat(S, n) ==
  IF n = 0 THEN {}
  ELSE LET shorter == SeqsNoRepeat(S, n - 1)
       IN {<<x>> : x \in S} \cup shorter
          \cup UNION {{Append(q, x) : x \in S \ Range(q)} : q \in shorter}

\* resolved target lists: one target per distinct chain, in resolved order
TargetLists == SeqsNoRepeat(Chains, MaxChains)

\* what a fee accessor answers: a bigint, something else, or a rejection
FeeAnswers ==
  [kind : {"bigint"}, value : {0, 12}] \cup [kind : {"other", "rejects"}, value : {0}]

FeeAnswer(kind, value) == [kind |-> kind, value |-> value]

\* the answers of the two fee accessors of a chain
FeeAnswerPairs ==
  { <<FeeAnswer("bigint", 12), FeeAnswer("bigint", 0)>>,
    <<FeeAnswer("rejects", 0), FeeAnswer("bigint", 12)>>,
    <<FeeAnswer("other", 0), FeeAnswer("rejects", 0)>> }

\* readRegistrationFee: getRegistrationFee, else registrationFee, else 0n
ReadRegistrationFee(primary, secondary) ==
  IF primary.kind = "bigint" THEN primary.value
  ELSE IF secondary.kind = "bigint" THEN secondary.value
  ELSE 0

Digit(d) ==
  CASE d = 0 -> "0" [] d = 1 -> "1" [] d = 2 -> "2" [] d = 3 -> "3" [] d = 4 -> "4"
    [] d = 5 -> "5" [] d = 6 -> "6" [] d = 7 -> "7" [] d = 8 -> "8" [] d = 9 -> "9"

RECURSIVE ToDecimalString(_)
\* bigint.toString()
ToDecimalString(n) ==
  IF n < 10 THEN <<Digit(n)>> ELSE Append(ToDecimalString(n \div 10), Digit(n % 10))

\* error texts, word by word; the whitespace between words is kept
Whitespace == {" ", "\t", "\n"}
ErrorTexts ==
  { <<"insufficient", " ", "funds">>,
    <<"Agent", " ", "ALREADY", " ", "Registered">>,
    <<"already", "\t", "\n", "registered">>,
    <<"already", "registered">>,
    <<"already", " ", "not", " ", "registered">> }

\* toLowerCase of a word (the i flag of the pattern)
LowerWord(w) ==
  CASE w = "ALREADY" -> "already"
    [] w = "Already" -> "already"
    [] w = "Registered" -> "registered"
    [] w = "Agent" -> "agent"
    [] OTHER -> w

\* AlreadyRegisteredPattern with a single space between the two words
AlreadyRegisteredPhrase(message) ==
  \E i \in 1..Len(message) :
    /\ i + 2 <= Len(message)
    /\ LowerWord(message[i]) = "already"
    /\ message[i + 1] = " "
    /\ LowerWord(message[i + 2]) = "registered"

\* /already\s+registered/i.test(message)
AlreadyRegisteredPattern(message) ==
  \E i, j \in 1..Len(message) :
    /\ i + 1 < j
    /\ LowerWord(message[i]) = "already"
    /\ \A k \in (i + 1)..(j - 1) : message[k] \in Whitespace
    /\ LowerWord(message[j]) = "registered"

NoText == <<>>

\* thrown values: an Error with a message, or a bare string
Errors ==
  [isError : {TRUE}, message : ErrorTexts, value : {NoText}]
  \cup [isError : {FALSE}, message : {NoText}, value : {<<"Already", " ", "registered">>}]

\* formatError: the message of an Error, String(error) otherwise
FormatError(error) == IF error.isError THEN error.message ELSE error.value

NoHash == <<"none">>

\* the result of a chain on which an error was caught
ErrorResult(chain, message) ==
  [chain |-> chain,
   status |-> IF AlreadyRegisteredPattern(message) THEN "already-registered" ELSE "failed",
   registrationFeeWei |-> NoText, txHash |-> NoHash, error |-> message]

DryRunResult(chain, fee) ==
  [chain |-> chain, status |-> "dry-run", registrationFeeWei |-> ToDecimalString(fee),
   txHash |-> NoHash, error |-> NoText]

SuccessResult(chain, fee, txHash) ==
  [chain |-> chain, status |-> "success", registrationFeeWei |-> ToDecimalString(fee),
   txHash |-> txHash, error |-> NoText]

\* NextTarget that ends the loop after a chain whose result is an error
NextTargetUntilError(r) ==
  IF r.i < Len(r.targets) /\ (r.i = 0 \/ r.chainResults[Len(r.chainResults)].error = NoText)
  THEN [r EXCEPT !.i = @ + 1, !.pc = "fee", !.fee = 0]
  ELSE [r EXCEPT !.pc = "returned"]

\* the loop goes to the next target, or the call returns
NextTarget(r) ==
  IF r.i < Len(r.targets) THEN [r EXCEPT !.i = @ + 1, !.pc = "fee", !.fee = 0]
  ELSE [r EXCEPT !.pc = "returned"]

Push(r, result) == [r EXCEPT !.chainResults = Append(@, result)]

\* the catch clause of the loop body: the error becomes the result of the chain
Catch(r, chain, error) ==
  Push([r EXCEPT !.caught = Append(@, [chain |-> chain, error |-> error])],
       ErrorResult(chain, FormatError(error)))

\* register is invoked: the targets are resolved and the loop begins
RegisterStart(targets, dryRun) ==
  /\ reg.pc = "idle"
  /\ reg' = NextTarget([IdleRegister EXCEPT !.targets = targets, !.dryRun = dryRun])
  /\ UNCHANGED notRegVars

\* SubmitsAfterFee that submits in a dry run too
SubmitsAfterFeeAlways(dryRun) == TRUE

\* if (params.dryRun) { push dry-run; continue }
SubmitsAfterFee(dryRun) == ~dryRun

\* the fee of the current target is read; a dry run records it and moves on
RegFee(primary, secondary) ==
  /\ reg.pc = "fee"
  /\ LET chain == reg.targets[reg.i]
         fee == ReadRegistrationFee(primary, secondary)
         r1 == [reg EXCEPT !.fee = fee,
                           !.feeReads = Append(@, [chain |-> chain, primary |-> primary,
                                                   secondary |-> secondary])]
     IN reg' = IF SubmitsAfterFee(reg.dryRun) THEN [r1 EXCEPT !.pc = "submit"]
               ELSE NextTarget(Push(r1, DryRunResult(chain, fee)))
  /\ UNCHANGED notRegVars

\* the hash of the transaction submitted for a chain
TxHashOf(chain) == <<"tx", chain>>

\* walletClient.sendTransaction settles: a hash, or a rejection
RegSubmit(ok, error) ==
  /\ reg.pc = "submit"
  /\ LET chain == reg.targets[reg.i]
     IN reg' = IF ok
               THEN [reg EXCEPT !.pc = "receipt",
                                !.txs = Append(@, [chain |-> chain, value |-> reg.fee])]
               ELSE NextTarget(Catch(reg, chain, error))
  /\ UNCHANGED notRegVars

\* the error of a receipt whose status is not success
Reverted ==
  [isError |-> TRUE, message |-> <<"transaction", " ", "reverted">>, value |-> NoText]

ReceiptStatuses == {"success", "reverted"}

\* ReceiptAccepted that takes every receipt for a success
ReceiptAcceptedAlways(status) == TRUE

\* receipt.status !== "success" throws
ReceiptAccepted(status) == status = "success"

\* waitForTransactionReceipt settles: a receipt, or a rejection
RegReceipt(ok, status, error) ==
  /\ reg.pc = "receipt"
  /\ LET chain == reg.targets[reg.i]
         r1 == [reg EXCEPT !.receipts =
                  Append(@, [chain |-> chain, status |-> IF ok THEN status ELSE "none"])]
     IN reg' = IF ~ok THEN NextTarget(Catch(r1, chain, error))
               ELSE IF ~ReceiptAccepted(status)
                    THEN NextTarget(Catch(r1, chain, Reverted))
               ELSE NextTarget(Push(r1, SuccessResult(chain, reg.fee, TxHashOf(chain))))
  /\ UNCHANGED notRegVars

InitRegister == GateInit /\ RestInit

NextRegister ==
  \/ \E targets \in TargetLists, dryRun \in BOOLEAN : RegisterStart(targets, dryRun)
  \/ \E answers \in FeeAnswerPairs : RegFee(answers[1], answers[2])
  \/ \E ok \in BOOLEAN, error \in Errors : RegSubmit(ok, error)
  \/ \E ok \in BOOLEAN, status \in ReceiptStatuses, error \in Errors :
       RegReceipt(ok, status, error)

SpecRegister == InitRegister /\ [][NextRegister]_vars

(***************************************************************************)
(* Target-chain resolution: resolveErc8004TargetChains                     *)
(***************************************************************************)
LowerAlnum ==
  {"a", "b", "c", "d", "e", "f", "g", "h", "i", "j", "k", "l", "m", "n", "o", "p",
   "q", "r", "s", "t", "u", "v", "w", "x", "y", "z",
   "0", "1", "2", "3", "4", "5", "6", "7", "8", "9"}

DigitChars == {Digit(d) : d \in 0..9}

RECURSIVE StripNonAlnum(_)
\* .replace(/[^a-z0-9]/g, "")
StripNonAlnum(s) ==
  IF s = <<>> THEN <<>>
  ELSE IF Head(s) \in LowerAlnum
       THEN <<Head(s)>> \o StripNonAlnum(Tail(s))
       ELSE StripNonAlnum(Tail(s))

\* normalizeAlias: trim, lower-case, drop everything but letters and digits
NormalizeAlias(input) == StripNonAlnum(ToLowerCase(Trim(input)))

\* /^\d+$/
IsDigits(s) == s # <<>> /\ \A i \in 1..Len(s) : s[i] \in DigitChars

RECURSIVE ParseInt(_)
\* Number.parseInt(s, 10) of a string of digits
ParseInt(s) ==
  IF s = <<>> THEN 0
  ELSE ParseInt(SubSeq(s, 1, Len(s) - 1)) * 10
       + (CHOOSE d \in 0..9 : Digit(d) = s[Len(s)])

\* the chains of viem/chains, in the order Object.values lists them: the key
\* a target of the registration loop is named by, the id, the name and the
\* first default RPC endpoint
ViemChains ==
  << [key |-> "mainnet", id |-> 1, name |-> <<"E", "t", "h", "e", "r", "e", "u", "m">>,
      rpc |-> <<"d", "1">>],
     [key |-> "optimism", id |-> 10,
      name |-> <<"O", "P", " ", "M", "a", "i", "n", "n", "e", "t">>,
      rpc |-> <<"d", "2">>],
     [key |-> "base", id |-> 8453, name |-> <<"B", "a", "s", "e">>,
      rpc |-> <<"d", "3">>] >>

\* the chains the module-level loop registers: the first chain of each id
RegisteredChains ==
  {i \in 1..Len(ViemChains) : \A j \in 1..(i - 1) : ViemChains[j].id # ViemChains[i].id}

ChainOf(key) ==
  ViemChains[CHOOSE i \in 1..Len(ViemChains) : ViemChains[i].key = key]

\* what a lookup in chainById or chainByAlias gives for a missing key
NoChain == "undefined"

\* an optional parameter or field: absent, or present with a value
None == <<>>
Some(value) == <<value>>

\* chainById.get(id)
ChainById(id) ==
  IF id = ChainOf("mainnet").id THEN "mainnet"
  ELSE LET hits == {i \in RegisteredChains : ViemChains[i].id = id}
       IN IF hits = {} THEN NoChain ELSE ViemChains[CHOOSE i \in hits : TRUE].key

ManualAliases ==
  { <<"e", "t", "h">>, <<"e", "t", "h", "e", "r", "e", "u", "m">>,
    <<"m", "a", "i", "n", "n", "e", "t">> }

\* chainByAlias.get(alias): a later chain's alias replaces an earlier one's, and
\* eth, ethereum and mainnet are set last
ChainByAlias(alias) ==
  IF alias \in ManualAliases THEN "mainnet"
  ELSE LET hits ==
             {i \in RegisteredChains :
                alias \in {NormalizeAlias(ToDecimalString(ViemChains[i].id)),
                           NormalizeAlias(ViemChains[i].name)}}
       IN IF hits = {} THEN NoChain
          ELSE ViemChains[CHOOSE i \in hits : \A j \in hits : j <= i].key

Eip155Prefix == <<"e", "i", "p", "1", "5", "5", ":">>

\* /^eip155:(\d+)$/i
Eip155Match(s) ==
  /\ Len(s) > Len(Eip155Prefix)
  /\ ToLowerCase(SubSeq(s, 1, Len(Eip155Prefix))) = Eip155Prefix
  /\ IsDigits(SubSeq(s, Len(Eip155Prefix) + 1, Len(s)))

\* resolveChainByInput
ResolveChainByInput(input) ==
  LET trimmed == Trim(input)
  IN IF trimmed = <<>> THEN NoChain
     ELSE IF Eip155Match(trimmed)
          THEN ChainById(ParseInt(SubSeq(trimmed, Len(Eip155Prefix) + 1, Len(trimmed))))
     ELSE IF IsDigits(trimmed) THEN ChainById(ParseInt(trimmed))
     ELSE ChainByAlias(NormalizeAlias(trimmed))

\* [String(chain.id), chain.name, `eip155:${chain.id}`]
AliasKeys(chain) ==
  {ToDecimalString(chain.id), chain.name, Eip155Prefix \o ToDecimalString(chain.id)}

RECURSIVE PickEntry(_, _)
\* the loop of pickOverride over Object.entries(record)
PickEntry(entries, aliases) ==
  IF entries = <<>> THEN Undefined
  ELSE LET key == Head(entries)[1]
           trimmed == Trim(Head(entries)[2])
       IN IF trimmed # <<>> /\ NormalizeAlias(key) \in {NormalizeAlias(a) : a \in aliases}
          THEN trimmed
          ELSE PickEntry(Tail(entries), aliases)

\* pickOverride: the first entry with a non-blank value whose key is an alias
PickOverride(record, aliases) ==
  IF record = None THEN Undefined ELSE PickEntry(record[1], aliases)

\* what a call returns or throws
Returned(value) == [ok |-> TRUE, value |-> value]
Threw(message) == [ok |-> FALSE, value |-> message]

\* resolveRpcUrl
ResolveRpcUrl(chain, overrides) ==
  LET override == PickOverride(overrides, AliasKeys(chain))
  IN IF override # Undefined THEN Returned(override)
     ELSE IF Trim(chain.rpc) # <<>> THEN Returned(Trim(chain.rpc))
     ELSE Threw(<<"No RPC URL available for chain">>)

DEFAULT_ERC8004_REGISTRY_ADDRESS == AddrOf("0")

\* viem's isAddress, on the lower-case and the malformed values of this model
IsAddress(value) == MatchesLowerAddress(value)

\* resolveRegistryAddress
ResolveRegistryAddress(chain, overrides) ==
  LET override == PickOverride(overrides, AliasKeys(chain))
      rawAddress == IF override # Undefined THEN override
                    ELSE DEFAULT_ERC8004_REGISTRY_ADDRESS
  IN IF ~IsAddress(rawAddress)
     THEN Threw(<<"Invalid ERC-8004 registry address for">>)
     ELSE Returned(ToLowerCase(rawAddress))

\* String(entry) of a defaultChains entry, a string or a number
StringOfEntry(entry) ==
  IF entry.kind = "number" THEN ToDecimalString(entry.value) ELSE entry.value

\* params.accountErc8004?.f
FieldOf(config, f) == IF config = None THEN None ELSE config[1][f]

\* the inputs the loop runs over: requested, else configured, else mainnet
RawChainInputsRequestedOnly(requestedChains, accountErc8004) ==
  IF requestedChains # None /\ Len(requestedChains[1]) > 0 THEN requestedChains[1]
  ELSE <<<<"m", "a", "i", "n", "n", "e", "t">>>>

RawChainInputs(requestedChains, accountErc8004) ==
  LET defaultChains == FieldOf(accountErc8004, "defaultChains")
      fallbackChainInputs ==
        IF defaultChains = None THEN <<>>
        ELSE [i \in 1..Len(defaultChains[1]) |-> StringOfEntry(defaultChains[1][i])]
  IN IF requestedChains # None /\ Len(requestedChains[1]) > 0 THEN requestedChains[1]
     ELSE IF Len(fallbackChainInputs) > 0 THEN fallbackChainInputs
     ELSE <<<<"m", "a", "i", "n", "n", "e", "t">>>>

RECURSIVE Join(_, _)
\* Array.prototype.join
Join(list, sep) ==
  IF list = <<>> THEN <<>>
  ELSE IF Len(list) = 1 THEN list[1]
  ELSE list[1] \o sep \o Join(Tail(list), sep)

\* seen.has(resolved.id) that never finds the id
SeenHasNever(seen, id) == FALSE

\* seen.has(resolved.id)
SeenHas(seen, id) == id \in seen

\* the target of a resolved chain, or the error its RPC endpoint or its
\* registry address raises
TargetOf(key, accountErc8004) ==
  LET rpcUrl == ResolveRpcUrl(ChainOf(key), FieldOf(accountErc8004, "rpcUrls"))
      registryAddress ==
        ResolveRegistryAddress(ChainOf(key), FieldOf(accountErc8004, "registryAddresses"))
  IN IF ~rpcUrl.ok THEN rpcUrl
     ELSE IF ~registryAddress.ok THEN registryAddress
     ELSE Returned([chain |-> key, rpcUrl |-> rpcUrl.value,
                    registryAddress |-> registryAddress.value])

RECURSIVE ResolveLoop(_, _, _, _, _)
\* the for loop over rawChainInputs and what follows it
ResolveLoop(inputs, accountErc8004, chains, seen, unknown) ==
  IF inputs = <<>>
  THEN IF Len(unknown) > 0
       THEN Threw(<<"Unsupported chain(s): ">> \o Join(unknown, <<",", " ">>))
       ELSE IF Len(chains) = 0
            THEN LET target == TargetOf("mainnet", accountErc8004)
                 IN IF target.ok THEN Returned(<<target.value>>) ELSE target
            ELSE Returned(chains)
  ELSE LET resolved == ResolveChainByInput(Head(inputs))
       IN IF resolved = NoChain
          THEN ResolveLoop(Tail(inputs), accountErc8004, chains, seen,
                           Append(unknown, Head(inputs)))
          ELSE IF SeenHas(seen, ChainOf(resolved).id)
               THEN ResolveLoop(Tail(inputs), accountErc8004, chains, seen, unknown)
               ELSE LET target == TargetOf(resolved, accountErc8004)
                    IN IF ~target.ok THEN target
                       ELSE ResolveLoop(Tail(inputs), accountErc8004,
                                        Append(chains, target.value),
                                        seen \cup {ChainOf(resolved).id}, unknown)

\* ResolveErc8004TargetChains that passes over the inputs it does not know
ResolveErc8004TargetChainsKnownOnly(requestedChains, accountErc8004) ==
  ResolveLoop(SelectSeq(RawChainInputs(requestedChains, accountErc8004),
                        LAMBDA input : ResolveChainByInput(input) # NoChain),
              accountErc8004, <<>>, {}, <<>>)

\* resolveErc8004TargetChains
ResolveErc8004TargetChains(requestedChains, accountErc8004) ==
  ResolveLoop(RawChainInputs(requestedChains, accountErc8004), accountErc8004,
              <<>>, {}, <<>>)

\* chain inputs as a caller writes them
ChainInputs ==
  { <<"1">>, <<"m", "a", "i", "n", "n", "e", "t">>,
    <<" ", "M", "a", "i", "n", "-", "N", "e", "t">>,
    <<"E", "I", "P", "1", "5", "5", ":", "1", "0">>,
    <<"b", "a", "s", "e">>, <<"8", "4", "5", "3">>,
    <<"b", "o", "g", "u", "s">>, <<"e", "i", "p", "1", "5", "5", ":", "7">> }

RECURSIVE SeqsUpTo(_, _)
\* the sequences over S of length 0..n
SeqsUpTo(S, n) ==
  IF n = 0 THEN {<<>>}
  ELSE LET shorter == SeqsUpTo(S, n - 1)
       IN shorter \cup {Append(q, x) : q \in {p \in shorter : Len(p) = n - 1}, x \in S}

RequestedChainLists == {None} \cup {Some(l) : l \in SeqsUpTo(ChainInputs, MaxInputs)}

\* a defaultChains entry: a string or a number
StringEntry(value) == [kind |-> "string", value |-> value]
NumberEntry(value) == [kind |-> "number", value |-> value]

\* the account's erc8004 settings
TargetConfigs ==
  {None} \cup
  {Some(c) : c \in
    [defaultChains :
       {None, Some(<<NumberEntry(8453), StringEntry(<<"B", "a", "s", "e">>)>>),
        Some(<<StringEntry(<<"b", "o", "g", "u", "s">>)>>)},
     rpcUrls :
       {None, Some(<< <<<<"1">>, <<" ">>>>, <<<<"B", "A", "S", "E">>, <<" ", "u">>>> >>)},
     registryAddresses :
       {None,
        Some(<< <<<<"8", "4", "5", "3">>, AddrOf("a")>> >>),
        Some(<< <<<<"b", "a", "s", "e">>, <<"0", "x">>>> >>),
        Some(<< <<<<"e", "i", "p", "1", "5", "5", ":", "1">>, <<"n", "o">>>> >>)}]}

\* one call of resolveErc8004TargetChains
ResolveTargets(requestedChains, accountErc8004) ==
  /\ tgt.pc = "idle"
  /\ tgt' = [pc |-> "done", requestedChains |-> requestedChains,
             accountErc8004 |-> accountErc8004,
             out |-> ResolveErc8004TargetChains(requestedChains, accountErc8004)]
  /\ UNCHANGED <<notCallVars, uri, cmdVars, acctVars>>

(***************************************************************************)
(* Token URI resolution: resolveErc8004TokenUri                            *)
(***************************************************************************)
\* JSON.stringify(payload): the fixed text around the endpoint, and the endpoint
JsonStringify(payload) ==
  <<"{\"type\":\"https://eips.ethereum.org/EIPS/eip-8004#registration-v1\",",
    "\"name\":\"">> \o <<payload.name>> \o
  <<"\",\"active\":true,\"services\":[{\"name\":\"XMTP\",\"endpoint\":\"">>
  \o payload.endpoint \o <<"\"}]}">>

\* Buffer.from(text, "utf8").toString("base64"): the encoding of the text, kept
\* apart from the text itself
Base64(text) == <<"base64">> \o text

\* buildGeneratedTokenUri with the account id for the descriptor's name
BuildGeneratedTokenUriNamed(accountId, accountAddress) ==
  <<"data:application/json;base64,">>
  \o Base64(JsonStringify([name |-> accountId, endpoint |-> accountAddress]))

\* buildGeneratedTokenUri
BuildGeneratedTokenUri(accountId, accountAddress) ==
  <<"data:application/json;base64,">>
  \o Base64(JsonStringify([name |-> "Agent", endpoint |-> accountAddress]))

\* params.tokenUriArg, as given
FromArgsUntrimmed(tokenUriArg) == IF tokenUriArg = Undefined THEN <<>> ELSE tokenUriArg

\* params.tokenUriArg?.trim()
FromArgs(tokenUriArg) == IF tokenUriArg = Undefined THEN <<>> ELSE Trim(tokenUriArg)

\* params.accountErc8004?.tokenUri?.trim()
FromConfig(accountErc8004) ==
  LET tokenUri == FieldOf(accountErc8004, "tokenUri")
  IN IF tokenUri = None THEN <<>> ELSE Trim(tokenUri[1])

\* resolveErc8004TokenUri
ResolveErc8004TokenUri(tokenUriArg, accountErc8004, accountId, accountAddress) ==
  LET fromArgs == FromArgs(tokenUriArg)
      fromConfig == FromConfig(accountErc8004)
      generated == Trim(BuildGeneratedTokenUri(accountId, accountAddress))
  IN IF fromArgs # <<>> THEN [tokenUri |-> fromArgs, source |-> "arg"]
     ELSE IF fromConfig # <<>> THEN [tokenUri |-> fromConfig, source |-> "config"]
     ELSE IF generated # <<>> THEN [tokenUri |-> generated, source |-> "generated"]
     ELSE [tokenUri |-> <<>>, source |-> "prompt"]

\* token URIs as a caller or a config writes them
TokenUriTexts ==
  { <<" ">>, <<" ", "i", "p", "f", "s", " ">>, <<"h", "t", "t", "p">>, <<"a", "r", " ", "1">> }
TokenUriArgs == {Undefined} \cup TokenUriTexts
TokenConfigs == {None} \cup {Some([tokenUri |-> t]) : t \in {None} \cup {Some(x) : x \in TokenUriTexts}}
AccountIds == {<<"d", "e", "f", "a", "u", "l", "t">>, <<"a", "l", "i", "c", "e">>}

\* one call of resolveErc8004TokenUri
ResolveTokenUri(tokenUriArg, accountErc8004, accountId, accountAddress) ==
  /\ uri.pc = "idle"
  /\ uri' = [pc |-> "done", tokenUriArg |-> tokenUriArg, accountErc8004 |-> accountErc8004,
             accountId |-> accountId, accountAddress |-> accountAddress,
             out |-> ResolveErc8004TokenUri(tokenUriArg, accountErc8004, accountId,
                                            accountAddress)]
  /\ UNCHANGED <<notCallVars, tgt, cmdVars, acctVars>>

InitResolve == GateInit /\ RestInit

NextResolve ==
  \/ /\ tgt.pc = "idle"
     /\ \E requestedChains \in RequestedChainLists, accountErc8004 \in TargetConfigs :
          ResolveTargets(requestedChains, accountErc8004)

SpecResolve == InitResolve /\ [][NextResolve]_vars

(***************************************************************************)
(* The registration engine from the requested chains on: the targets are   *)
(* resolved, then the per-chain loop runs                                  *)
(***************************************************************************)
\* the chains of the resolved targets, in order
ChainsOf(targets) == [i \in 1..Len(targets) |-> targets[i].chain]

\* the engine after resolveErc8004TargetChains returned or threw: the loop
\* begins on the resolved targets, or the call ends with the error
AfterResolve(requestedChains, accountErc8004, dryRun, out) ==
  /\ tgt' = [pc |-> "done", requestedChains |-> requestedChains,
             accountErc8004 |-> accountErc8004, out |-> out]
  /\ reg' = IF out.ok
            THEN NextTarget([IdleRegister EXCEPT !.targets = ChainsOf(out.value),
                                                 !.dryRun = dryRun])
            ELSE [IdleRegister EXCEPT !.pc = "threw"]

\* register is invoked with the chains as requested
RegisterRequested(requestedChains, accountErc8004, dryRun) ==
  /\ reg.pc = "idle"
  /\ tgt.pc = "idle"
  /\ AfterResolve(requestedChains, accountErc8004, dryRun,
                  ResolveErc8004TargetChains(requestedChains, accountErc8004))
  /\ UNCHANGED <<gateVars, lifeVars, consentVars, outVars, cfgVars, adapterVars,
                 uri, cmdVars, acctVars>>

\* the chains a caller asks for
RegisterRequests ==
  {None} \cup
  {Some(l) : l \in SeqsUpTo({<<"1">>, <<"b", "a", "s", "e">>, <<"b", "o", "g", "u", "s">>},
                            MaxChains)}

\* the account's erc8004 settings: none, a registry override that is an
\* address, one that is not, and default chains none of which is known
RegisterConfigs ==
  { None,
    Some([defaultChains |-> None, rpcUrls |-> None,
          registryAddresses |-> Some(<< <<<<"8", "4", "5", "3">>, AddrOf("a")>> >>)]),
    Some([defaultChains |-> None, rpcUrls |-> None,
          registryAddresses |-> Some(<< <<<<"b", "a", "s", "e">>, <<"0", "x">>>> >>)]),
    Some([defaultChains |-> Some(<<StringEntry(<<"b", "o", "g", "u", "s">>)>>),
          rpcUrls |-> None, registryAddresses |-> None]) }

NextRegisterFrom ==
  \/ /\ reg.pc = "idle"
     /\ \E requestedChains \in RegisterRequests, accountErc8004 \in RegisterConfigs,
           dryRun \in BOOLEAN :
          RegisterRequested(requestedChains, accountErc8004, dryRun)
  \/ \E answers \in FeeAnswerPairs : RegFee(answers[1], answers[2])
  \/ \E ok \in BOOLEAN, error \in Errors : RegSubmit(ok, error)
  \/ \E ok \in BOOLEAN, status \in ReceiptStatuses, error \in Errors :
       RegReceipt(ok, status, error)

SpecRegisterFrom == InitResolve /\ [][NextRegisterFrom]_vars

NextTokenUri ==
  \/ /\ uri.pc = "idle"
     /\ \E tokenUriArg \in TokenUriArgs, accountErc8004 \in TokenConfigs,
           accountId \in AccountIds, d \in {"a", "b"} :
          ResolveTokenUri(tokenUriArg, accountErc8004, accountId, AddrOf(d))

SpecTokenUri == InitResolve /\ [][NextTokenUri]_vars

(***************************************************************************)
(* Accounts: listXmtpAccountIds and resolveXmtpAccount                     *)
(***************************************************************************)
DEFAULT_ACCOUNT_ID == <<"d", "e", "f", "a", "u", "l", "t">>
DEFAULT_ENV == "production"

\* the fields of XmtpAccountConfig
AccountFields ==
  {"enabled", "name", "walletKey", "walletKeyFile", "dbEncryptionKey",
   "dbEncryptionKeyFile", "env", "dbPath", "dmPolicy", "allowFrom", "groupPolicy",
   "groupAllowFrom"}

\* an object that defines none of the fields
EmptyFields == [f \in AccountFields |-> None]

\* cfg.channels?.xmtp: the top-level fields, or none of them
TopLevelFields(cfg) == IF cfg.xmtp = None THEN EmptyFields ELSE cfg.xmtp[1].top

\* xmtpCfg?.accounts: the entries of the named-accounts map, in key order
AccountEntries(cfg) ==
  IF cfg.xmtp = None \/ cfg.xmtp[1].accounts = None THEN <<>>
  ELSE cfg.xmtp[1].accounts[1]

\* Boolean(value?.trim())
Present(value) == value # None /\ Trim(value[1]) # <<>>

\* process.env has a non-blank wallet key or encryption key
HasEnvNever(env) == FALSE

HasEnv(env) == Present(env.XMTP_WALLET_KEY) \/ Present(env.XMTP_DB_ENCRYPTION_KEY)

\* the top-level config has a secret or a secret file
HasConfig(cfg) ==
  LET top == TopLevelFields(cfg)
  IN \/ Present(top["walletKey"])
     \/ Present(top["walletKeyFile"])
     \/ Present(top["dbEncryptionKey"])
     \/ Present(top["dbEncryptionKeyFile"])

\* listXmtpAccountIds
ListXmtpAccountIds(cfg, env) ==
  IF Len(AccountEntries(cfg)) > 0
  THEN [i \in 1..Len(AccountEntries(cfg)) |-> AccountEntries(cfg)[i][1]]
  ELSE IF HasConfig(cfg) \/ HasEnv(env) THEN <<DEFAULT_ACCOUNT_ID>>
  ELSE <<>>

\* resolveDefaultXmtpAccountId
ResolveDefaultXmtpAccountId(cfg, env) ==
  LET ids == ListXmtpAccountIds(cfg, env)
  IN IF DEFAULT_ACCOUNT_ID \in Range(ids) THEN DEFAULT_ACCOUNT_ID
     ELSE IF ids # <<>> THEN ids[1] ELSE DEFAULT_ACCOUNT_ID

\* _accounts?.[accountId] ?? {}
AccountOverrides(cfg, accountId) ==
  LET hits == {i \in 1..Len(AccountEntries(cfg)) : AccountEntries(cfg)[i][1] = accountId}
  IN IF hits = {} THEN EmptyFields ELSE AccountEntries(cfg)[CHOOSE i \in hits : TRUE][2]

\* an account entry that replaces the top-level fields as a whole
MergeReplacing(topLevelFields, accountOverrides) ==
  IF accountOverrides = EmptyFields THEN topLevelFields ELSE accountOverrides

\* { ...topLevelFields, ...accountOverrides }
Merge(topLevelFields, accountOverrides) ==
  [f \in AccountFields |->
     IF accountOverrides[f] # None THEN accountOverrides[f] ELSE topLevelFields[f]]

\* readFileSync(path, "utf-8"): the content, or a throw for a file that cannot
\* be read
ReadFileSync(fs, path) ==
  IF path \in DOMAIN fs /\ fs[path] # None THEN fs[path][1] ELSE Thrown

NoSecret == [secret |-> <<>>, source |-> "none"]

\* the environment variable is consulted for no account
EnvAppliesNever(accountId) == FALSE

\* the environment variable is consulted for every account
EnvAppliesAlways(accountId) == TRUE

\* accountId === DEFAULT_ACCOUNT_ID
EnvApplies(accountId) == accountId = DEFAULT_ACCOUNT_ID

\* the body shared by resolveWalletKey and resolveDbEncryptionKey
ResolveSecret(accountId, fileField, inlineField, envValue, fs) ==
  LET file == IF fileField = None THEN <<>> ELSE Trim(fileField[1])
      content == ReadFileSync(fs, file)
      configKey == IF inlineField = None THEN <<>> ELSE Trim(inlineField[1])
      envKey == IF envValue = None THEN <<>> ELSE Trim(envValue[1])
      afterFile ==
        IF configKey # <<>> THEN [secret |-> configKey, source |-> "config"]
        ELSE IF EnvApplies(accountId) /\ envKey # <<>>
             THEN [secret |-> envKey, source |-> "env"]
             ELSE NoSecret
  IN IF file # <<>>
     THEN IF content = Thrown THEN NoSecret
          ELSE IF Trim(content) # <<>>
               THEN [secret |-> Trim(content), source |-> "secretFile"]
               ELSE afterFile
     ELSE afterFile

\* resolveWalletKey
ResolveWalletKey(accountId, cfg, env, fs) ==
  ResolveSecret(accountId, cfg["walletKeyFile"], cfg["walletKey"], env.XMTP_WALLET_KEY, fs)

\* resolveDbEncryptionKey
ResolveDbEncryptionKey(accountId, cfg, env, fs) ==
  ResolveSecret(accountId, cfg["dbEncryptionKeyFile"], cfg["dbEncryptionKey"],
                env.XMTP_DB_ENCRYPTION_KEY, fs)

\* a private key of the model: 0x and hex digits
KeyOf(digit) == <<"0", "x">> \o [i \in 1..AddrDigits |-> digit]

\* viem's privateKeyToAccount(key).address: the checksummed (mixed-case)
\* address of a key that is 0x-prefixed hex and not zero; a throw otherwise
PrivateKeyToAccount(key) ==
  IF /\ Len(key) = 2 + AddrDigits
     /\ key[1] = "0" /\ key[2] = "x"
     /\ \A i \in 3..Len(key) : key[i] \in HexLower
     /\ \E i \in 3..Len(key) : key[i] # "0"
  THEN <<"0", "x">> \o [i \in 1..AddrDigits |->
                          IF key[i + 2] = "1" THEN "A" ELSE IF key[i + 2] = "a" THEN "B"
                          ELSE "0"]
  ELSE Thrown

\* deriveAddressFromKey without its catch
DeriveAddressFromKeyUncaught(walletKey) ==
  IF PrivateKeyToAccount(walletKey) = Thrown THEN Thrown
  ELSE ToLowerCase(PrivateKeyToAccount(walletKey))

\* deriveAddressFromKey without toLowerCase
DeriveAddressFromKeyChecksummed(walletKey) ==
  IF PrivateKeyToAccount(walletKey) = Thrown THEN <<>>
  ELSE PrivateKeyToAccount(walletKey)

\* deriveAddressFromKey
DeriveAddressFromKey(walletKey) ==
  IF PrivateKeyToAccount(walletKey) = Thrown THEN <<>>
  ELSE ToLowerCase(PrivateKeyToAccount(walletKey))

\* resolveXmtpAccount
ResolveXmtpAccount(cfg, accountIdArg, env, fs) ==
  LET accountId == IF accountIdArg = None THEN DEFAULT_ACCOUNT_ID ELSE accountIdArg[1]
      merged == Merge(TopLevelFields(cfg), AccountOverrides(cfg, accountId))
      walletKeyResolution == ResolveWalletKey(accountId, merged, env, fs)
      dbEncryptionKeyResolution == ResolveDbEncryptionKey(accountId, merged, env, fs)
      configured ==
        walletKeyResolution.secret # <<>> /\ dbEncryptionKeyResolution.secret # <<>>
      address == IF configured THEN DeriveAddressFromKey(walletKeyResolution.secret)
                 ELSE <<>>
  IN IF address = Thrown THEN Threw(<<"privateKeyToAccount">>)
     ELSE Returned(
       [accountId |-> accountId,
        name |-> IF merged["name"] # None /\ Trim(merged["name"][1]) # <<>>
                 THEN Some(Trim(merged["name"][1])) ELSE None,
        enabled |-> merged["enabled"] # Some(FALSE),
        configured |-> configured,
        walletKey |-> walletKeyResolution.secret,
        walletKeySource |-> walletKeyResolution.source,
        dbEncryptionKey |-> dbEncryptionKeyResolution.secret,
        dbEncryptionKeySource |-> dbEncryptionKeyResolution.source,
        address |-> address,
        env |-> IF merged["env"] # None THEN merged["env"][1] ELSE DEFAULT_ENV,
        config |-> merged])

\* secrets, file references and file contents as they are written
ValidKey == KeyOf("1")
OtherKey == KeyOf("a")
ZeroKey == KeyOf("0")
WalletFile == <<"f", "1">>
DbFile == <<"f", "2">>

\* top-level fields of channels.xmtp
TopConfigs ==
  {[EmptyFields EXCEPT !["walletKey"] = w, !["walletKeyFile"] = wf,
                       !["dbEncryptionKey"] = d, !["dbEncryptionKeyFile"] = df,
                       !["name"] = n] :
     w \in {None, Some(<<" ">> \o ValidKey), Some(ZeroKey), Some(<<" ">>)},
     wf \in {None, Some(<<" ">> \o WalletFile)},
     d \in {None, Some(<<"k">>)},
     df \in {None, Some(DbFile)},
     n \in {None, Some(<<" ", "n">>)}}

\* the named-accounts map: absent, empty, or entries in key order
AccountMaps ==
  { None, Some(<<>>),
    Some(<< <<<<"a", "l", "i", "c", "e">>, EmptyFields>> >>),
    Some(<< <<<<"a", "l", "i", "c", "e">>, [EmptyFields EXCEPT !["walletKey"] = Some(OtherKey),
                                           !["enabled"] = Some(FALSE)]>>,
            <<<<"b", "o", "b">>, [EmptyFields EXCEPT !["name"] = Some(<<"b">>)]>> >>),
    Some(<< <<<<"d", "e", "f", "a", "u", "l", "t">>, [EmptyFields EXCEPT !["dbEncryptionKeyFile"] =
                                               Some(DbFile)]>> >>) }

\* the configuration: without channels.xmtp, or with it
Cfgs ==
  {[xmtp |-> None]} \cup
  {[xmtp |-> Some([top |-> top, accounts |-> accounts])] :
     top \in TopConfigs, accounts \in AccountMaps}

\* process.env
Envs ==
  [XMTP_WALLET_KEY : {None, Some(OtherKey \o <<" ">>)},
   XMTP_DB_ENCRYPTION_KEY : {None, Some(<<"e">>)}]

\* the secret files: unreadable, or readable with a content
FileSystems ==
  {[p \in {WalletFile, DbFile} |-> IF p = WalletFile THEN w ELSE d] :
     w \in {None, Some(ValidKey \o <<" ">>), Some(<<" ">>)},
     d \in {None, Some(<<"s">>)}}

AccountIdArgs == {None, Some(<<"d", "e", "f", "a", "u", "l", "t">>), Some(<<"a", "l", "i", "c", "e">>)}

\* one call of listXmtpAccountIds
ListAccountIds(cfg, env) ==
  /\ account.pc = "idle"
  /\ account' = [pc |-> "listed", cfg |-> cfg, env |-> env,
                 out |-> ListXmtpAccountIds(cfg, env)]
  /\ UNCHANGED <<notCallVars, resolveVars, cmdVars>>

\* one call of resolveXmtpAccount
ResolveAccount(cfg, accountIdArg, env, fs) ==
  /\ account.pc = "idle"
  /\ account' = [pc |-> "resolved", cfg |-> cfg, accountId |-> accountIdArg,
                 env |-> env, fs |-> fs,
                 out |-> ResolveXmtpAccount(cfg, accountIdArg, env, fs)]
  /\ UNCHANGED <<notCallVars, resolveVars, cmdVars>>

NextAccount ==
  \/ /\ account.pc = "idle"
     /\ \E cfg \in Cfgs, env \in Envs : ListAccountIds(cfg, env)
  \/ /\ account.pc = "idle"
     /\ \E cfg \in Cfgs, accountIdArg \in AccountIdArgs, env \in Envs,
           fs \in FileSystems :
          ResolveAccount(cfg, accountIdArg, env, fs)

SpecAccount == InitResolve /\ [][NextAccount]_vars

(***************************************************************************)
(* The /xmtp-8004-register command: parser, handler and engine entry       *)
(***************************************************************************)
\* the position of the first c in s, 0 if there is none
IndexOf(s, c) ==
  IF \E i \in 1..Len(s) : s[i] = c
  THEN CHOOSE i \in 1..Len(s) : s[i] = c /\ \A j \in 1..(i - 1) : s[j] # c
  ELSE 0

RECURSIVE Split(_, _)
\* String.prototype.split(separator)
Split(s, c) ==
  IF IndexOf(s, c) = 0 THEN <<s>>
  ELSE <<SubSeq(s, 1, IndexOf(s, c) - 1)>> \o Split(SubSeq(s, IndexOf(s, c) + 1, Len(s)), c)

\* splitChains: split at the commas, trim, drop the empty items
SplitChains(raw) ==
  FilterNonEmpty([i \in 1..Len(Split(raw, ",")) |-> Trim(Split(raw, ",")[i])])

\* parseBooleanFlag
ParseBooleanFlag(value, defaultValue) ==
  LET normalized == IF value = None THEN <<>> ELSE ToLowerCase(Trim(value[1]))
  IN IF value = None \/ normalized = <<>> THEN defaultValue
     ELSE IF normalized \in {<<"1">>, <<"t", "r", "u", "e">>, <<"y", "e", "s">>,
                              <<"o", "n">>} THEN TRUE
     ELSE IF normalized \in {<<"0">>, <<"f", "a", "l", "s", "e">>, <<"n", "o">>,
                              <<"o", "f", "f">>} THEN FALSE
     ELSE defaultValue

\* const [key, inlineValue] = token.split("=", 2)
KeyOfToken(token) == Split(token, "=")[1]
InlineValue(token) ==
  IF Len(Split(token, "=")) > 1 THEN Some(Split(token, "=")[2]) ELSE None

\* the parser's result before the first token
EmptyParsed ==
  [help |-> FALSE, accountId |-> None, tokenUri |-> None, chains |-> <<>>,
   dryRun |-> FALSE, errors |-> <<>>]

MissingValue(key) == <<"Missing value for ", key>>
UnknownOption(token) == <<"Unknown option: ", token>>

RECURSIVE ParseFrom(_, _, _)
\* the loop of parseXmtp8004RegisterArgs from token i on
ParseFrom(tokens, i, parsed) ==
  IF i > Len(tokens) THEN parsed
  ELSE
    LET key == KeyOfToken(tokens[i])
        inlineValue == InlineValue(tokens[i])
        hasNext == i + 1 <= Len(tokens)
        \* inlineValue ?? valueFromNext()
        value == IF inlineValue # None THEN inlineValue[1]
                 ELSE IF hasNext THEN tokens[i + 1] ELSE <<>>
        taken == inlineValue = None /\ hasNext
        missing == IF inlineValue = None /\ ~hasNext
                   THEN <<MissingValue(key)>> ELSE <<>>
        next == IF taken THEN i + 2 ELSE i + 1
    IN IF key \in {<<"-", "h">>, <<"-", "-", "h", "e", "l", "p">>}
       THEN ParseFrom(tokens, i + 1, [parsed EXCEPT !.help = TRUE])
       ELSE IF key = <<"-", "-", "c", "h", "a", "i", "n", "s">>
       THEN ParseFrom(tokens, next,
              [parsed EXCEPT !.chains = @ \o SplitChains(value),
                             !.errors = @ \o missing])
       ELSE IF key = <<"-", "-", "t", "o", "k", "e", "n", "-", "u", "r", "i">>
       THEN ParseFrom(tokens, next,
              IF Trim(value) # <<>>
              THEN [parsed EXCEPT !.tokenUri = Some(Trim(value)), !.errors = @ \o missing]
              ELSE [parsed EXCEPT !.errors =
                      @ \o missing
                      \o <<MissingValue(<<"-", "-", "t", "o", "k", "e", "n", "-", "u", "r", "i">>)>>])
       ELSE IF key = <<"-", "-", "a", "c", "c", "o", "u", "n", "t">>
       THEN ParseFrom(tokens, next,
              IF Trim(value) # <<>>
              THEN [parsed EXCEPT !.accountId = Some(Trim(value)), !.errors = @ \o missing]
              ELSE [parsed EXCEPT !.errors =
                      @ \o missing
                      \o <<MissingValue(<<"-", "-", "a", "c", "c", "o", "u", "n", "t">>)>>])
       ELSE IF key = <<"-", "-", "d", "r", "y", "-", "r", "u", "n">>
       THEN ParseFrom(tokens, i + 1,
              [parsed EXCEPT !.dryRun = ParseBooleanFlag(inlineValue, TRUE)])
       ELSE ParseFrom(tokens, i + 1,
              [parsed EXCEPT !.errors = Append(@, UnknownOption(tokens[i]))])

\* parseXmtp8004RegisterArgs, on the tokens tokenizeArgs splits the arguments
\* into; no tokens for absent or blank arguments
ParseXmtp8004RegisterArgs(tokens) == ParseFrom(tokens, 1, EmptyParsed)

\* a non-empty string after trim, else the next choice
TrimmedOr(value, otherwise) ==
  IF value # None /\ Trim(value[1]) # <<>> THEN Trim(value[1]) ELSE otherwise

\* the per-chain loop of the engine, which catches every per-chain error: one
\* result per target, with the status the chain ends in
ChainResultsOf(targets, dryRun, live) ==
  [i \in 1..Len(targets) |->
     [chain |-> targets[i].chain, status |-> IF dryRun THEN "dry-run" ELSE live]]

\* registerXmtpAgentOnErc8004 from the resolved account on: what it returns or
\* throws
RegisterResolved(accountId, resolved, parsed, live) ==
  LET signer == PrivateKeyToAccount(resolved.walletKey)
      resolvedAddress == ToLowerCase(signer)
      \* account.config.erc8004: the resolved config carries no such field
      accountErc8004 == None
      tokenResolution ==
        ResolveErc8004TokenUri(IF parsed.tokenUri = None THEN Undefined
                               ELSE parsed.tokenUri[1],
                               accountErc8004, accountId, resolvedAddress)
      targets == ResolveErc8004TargetChains(Some(parsed.chains), accountErc8004)
  IN IF ~resolved.configured THEN Threw(<<"XMTP account is not configured">>)
     ELSE IF signer = Thrown THEN Threw(<<"privateKeyToAccount">>)
     ELSE IF tokenResolution.source = "prompt"
          THEN Returned([kind |-> "needs-token-uri", accountId |-> accountId])
     ELSE IF ~targets.ok THEN targets
     ELSE Returned([kind |-> "registered", accountId |-> accountId,
                    accountAddress |-> resolvedAddress,
                    tokenUriSource |-> tokenResolution.source,
                    chainResults |->
                      ChainResultsOf(targets.value, parsed.dryRun, live)])

\* registerXmtpAgentOnErc8004 for the chosen account id
RegisterAccount(cfg, accountId, parsed, env, fs, live) ==
  RegisterResolved(accountId, ResolveXmtpAccount(cfg, Some(accountId), env, fs).value,
                   parsed, live)

\* registerXmtpAgentOnErc8004: the account is the --account argument, else the
\* command's account, else the default account
RegisterXmtpAgentOnErc8004(cfg, commandAccountId, parsed, env, fs, live) ==
  RegisterAccount(cfg,
                  TrimmedOr(parsed.accountId,
                            TrimmedOr(commandAccountId,
                                      ResolveDefaultXmtpAccountId(cfg, env))),
                  parsed, env, fs, live)

\* what the handler's promise settles to
Text(kind) == [settled |-> "resolved", text |-> kind]
Rejected(error) == [settled |-> "rejected", text |-> error]

\* the reply after the engine has settled: an engine error is not caught
EngineOutcome(parsed, result) ==
  [parsed |-> parsed, engineCalls |-> 1, result |-> Some(result),
   out |-> IF ~result.ok THEN Rejected(result.value)
           ELSE IF result.value.kind = "needs-token-uri" THEN Text("prompt")
           ELSE Text("summary")]

\* a reply given without the engine
Reply(parsed, kind) ==
  [parsed |-> parsed, engineCalls |-> 0, result |-> None, out |-> Text(kind)]

\* the handler with help tested after the parse errors
HandlerOutcomeErrorsFirst(ctx, parsed, env, fs, live) ==
  IF Len(parsed.errors) > 0 THEN Reply(parsed, "invalid-arguments")
  ELSE IF parsed.help THEN Reply(parsed, "help")
  ELSE IF ctx = None \/ ctx[1].config = None THEN Reply(parsed, "missing-config")
  ELSE EngineOutcome(parsed,
         RegisterXmtpAgentOnErc8004(ctx[1].config[1], ctx[1].accountId, parsed,
                                    env, fs, live))

\* commands["xmtp-8004-register"].handler after the arguments are parsed
HandlerOutcome(ctx, parsed, env, fs, live) ==
  IF parsed.help THEN Reply(parsed, "help")
  ELSE IF Len(parsed.errors) > 0 THEN Reply(parsed, "invalid-arguments")
  ELSE IF ctx = None \/ ctx[1].config = None THEN Reply(parsed, "missing-config")
  ELSE EngineOutcome(parsed,
         RegisterXmtpAgentOnErc8004(ctx[1].config[1], ctx[1].accountId, parsed,
                                    env, fs, live))

\* commands["xmtp-8004-register"].handler
Handler(ctx, env, fs, live) ==
  HandlerOutcome(ctx,
                 ParseXmtp8004RegisterArgs(IF ctx = None THEN <<>> ELSE ctx[1].args),
                 env, fs, live)

\* argument tokens as a user types them
ArgTokens ==
  { <<"-", "-", "h", "e", "l", "p">>,
    <<"-", "-", "b", "a", "d">>,
    <<"-", "-", "c", "h", "a", "i", "n", "s">>,
    <<"-", "-", "c", "h", "a", "i", "n", "s", "=", "1", ",", "m", "a", "i", "n", "n", "e", "t">>,
    <<"-", "-", "c", "h", "a", "i", "n", "s", "=", "b", "o", "g", "u", "s">>,
    <<"-", "-", "d", "r", "y", "-", "r", "u", "n", "=", "n", "o">>,
    <<"-", "-", "a", "c", "c", "o", "u", "n", "t">>,
    <<"-", "-", "a", "c", "c", "o", "u", "n", "t", "=", "a", "l", "i", "c", "e">>,
    <<"-", "-", "t", "o", "k", "e", "n", "-", "u", "r", "i", "=", "i", "p", "f", "s">>,
    <<"b", "a", "s", "e">> }

\* configurations of the command context: no account, a configured default
\* account, a default account whose wallet secret is not a private key, and a
\* configured named account
CommandCfgs ==
  { [xmtp |-> None],
    [xmtp |-> Some([top |-> [EmptyFields EXCEPT !["walletKey"] = Some(ValidKey),
                                                !["dbEncryptionKey"] = Some(<<"k">>)],
                    accounts |-> None])],
    [xmtp |-> Some([top |-> [EmptyFields EXCEPT !["walletKey"] = Some(ZeroKey),
                                                !["dbEncryptionKey"] = Some(<<"k">>)],
                    accounts |-> None])],
    [xmtp |-> Some([top |-> [EmptyFields EXCEPT !["dbEncryptionKey"] = Some(<<"k">>)],
                    accounts |->
                      Some(<< <<<<"a", "l", "i", "c", "e">>,
                                [EmptyFields EXCEPT !["walletKey"] = Some(OtherKey)]>> >>)])] }

\* the command context: absent, or arguments, account id and config
CommandContexts ==
  {None} \cup
  {Some([args |-> args, accountId |-> accountId, config |-> config]) :
     args \in SeqsUpTo(ArgTokens, MaxTokens),
     accountId \in {None, Some(<<" ", "a", "l", "i", "c", "e">>)},
     config \in {None} \cup {Some(c) : c \in CommandCfgs}}

NoEnv == [XMTP_WALLET_KEY |-> None, XMTP_DB_ENCRYPTION_KEY |-> None]
NoFiles == [p \in {WalletFile, DbFile} |-> None]

\* the record of one settled invocation
Settled(ctx, outcome) ==
  [pc |-> "done", ctx |-> ctx, parsed |-> outcome.parsed,
   engineCalls |-> outcome.engineCalls, result |-> outcome.result,
   out |-> outcome.out]

\* one invocation of the command handler
Command(ctx, live) ==
  /\ cmd.pc = "idle"
  /\ cmd' = Settled(ctx, Handler(ctx, NoEnv, NoFiles, live))
  /\ UNCHANGED <<notCallVars, resolveVars, acctVars>>

NextCommand ==
  \/ /\ cmd.pc = "idle"
     /\ \E ctx \in CommandContexts, live \in {"success", "failed"} : Command(ctx, live)

SpecCommand == InitResolve /\ [][NextCommand]_vars

(***************************************************************************)
(* What a handler invocation has done, read off its log                    *)
(***************************************************************************)
Count(s, event) == Cardinality({i \in 1..Len(s.log) : s.log[i] = event})

Dispatched(s) == Has(s, "dispatch")
ReadDone(s) == Has(s, "read") \/ Has(s, "readFailed")
UpsertAttempted(s) == Has(s, "upsert") \/ Has(s, "upsertFailed")
CodeAttempted(s) == Has(s, "code") \/ Has(s, "codeFailed")
ReplyAttempted(s) ==
  CodeAttempted(s) \/ Has(s, "sendText") \/ Has(s, "sendReply") \/ Has(s, "deliverFailed")

\* a sender identifier against a set of normalized entries
Matches(entries, id) == Wildcard \in entries \/ id \in entries

NormalizedSet(entries) == {NormalizeAllowEntry(x) : x \in entries} \ {<<>>}

\* configured allowFrom united with the persisted entries the policy read returned
DmAllowSet(s) == NormalizedSet(Range(s.config.allowFrom)) \cup NormalizedSet(s.persisted)

(***************************************************************************)
(* C1: under dmPolicy disabled every direct message is dropped: it is not  *)
(* dispatched to the responder, no pairing request is upserted and no      *)
(* reply is attempted, whatever the sender and the allowlist.               *)
(***************************************************************************)
C1_DisabledDropsEveryDm ==
  \A h \in DOMAIN handlers :
    LET s == handlers[h]
    IN (s.isDm /\ s.config.dmPolicy = "disabled" /\ s.log # <<>>) =>
         /\ ~Dispatched(s)
         /\ ~Has(s, "gate")
         /\ ~UpsertAttempted(s)
         /\ ~ReplyAttempted(s)
         /\ s.pc \in {"dmRead", "done"}

\* a disabled-policy DM of a sender that matches the allowlist has been dropped
C1_Witness ==
  \E h \in DOMAIN handlers :
    LET s == handlers[h]
    IN /\ s.isDm /\ s.config.dmPolicy = "disabled"
       /\ s.pc = "done" /\ ReadDone(s)
       /\ Matches(DmAllowSet(s), s.sender)

(***************************************************************************)
(* C2: under dmPolicy pairing a sender that does not match the effective   *)
(* allowlist gets a pairing request upserted under (channel, sender        *)
(* identifier, account) and is never dispatched.                           *)
(***************************************************************************)
PairingUnmatched(s) ==
  /\ s.isDm
  /\ DmPolicyOf(s.config) = "pairing"
  /\ ReadDone(s)
  /\ ~Matches(DmAllowSet(s), s.sender)

\* C2 as stated: the reply is sent and one outbound activity is recorded
\* exactly when the upsert reports created
C2_SentAndRecordedIffCreated ==
  \A h \in DOMAIN handlers :
    LET s == handlers[h]
    IN (PairingUnmatched(s) /\ s.pc = "done" /\ Has(s, "upsert")) =>
         ((Has(s, "code") /\ Count(s, "outbound") = 1) <=> s.created)

\* C2 as amended: the reply is attempted exactly when the upsert reports
\* created, and one outbound activity is recorded exactly when it was also sent
C2_PairingBootstrap ==
  \A h \in DOMAIN handlers :
    LET s == handlers[h]
    IN PairingUnmatched(s) =>
         /\ ~Dispatched(s) /\ ~Has(s, "gate")
         /\ s.pc \in {"upsert", "sendCode", "done"}
         /\ s.pc # "upsert" => UpsertAttempted(s)
         /\ Has(s, "upsert") =>
              s.upKey = [channel |-> "xmtp", id |-> s.sender, accountId |-> AccountId]
         /\ s.pc = "sendCode" => s.created
         /\ (s.pc = "done" /\ Has(s, "upsert")) =>
              /\ CodeAttempted(s) <=> s.created
              /\ Count(s, "outbound") = (IF Has(s, "code") THEN 1 ELSE 0)
         /\ Has(s, "upsertFailed") => ~CodeAttempted(s) /\ Count(s, "outbound") = 0

\* an unmatched sender whose request was created got the code, recorded once
C2_Witness ==
  \E h \in DOMAIN handlers :
    LET s == handlers[h]
    IN /\ PairingUnmatched(s) /\ s.pc = "done"
       /\ s.created /\ Has(s, "code") /\ Count(s, "outbound") = 1
       /\ s.upKey.id = s.sender

(***************************************************************************)
(* C3: under dmPolicy pairing a sender that has not been approved is sent  *)
(* at most one pairing code, however its direct messages interleave.       *)
(***************************************************************************)
C3_AtMostOneCode ==
  \A id \in SenderIds : id \notin approvedEver => codesSent[id] <= 1

\* two overlapping messages of one unapproved sender: the later one created
\* the request, the earlier one found it, one code was sent
C3_Witness ==
  \E g, h \in DOMAIN handlers :
    /\ handlers[g].sender = handlers[h].sender
    /\ handlers[g].seq < handlers[h].seq
    /\ handlers[g].pc = "done" /\ handlers[h].pc = "done"
    /\ Has(handlers[g], "upsert") /\ ~handlers[g].created
    /\ Has(handlers[h], "code")
    /\ handlers[h].sender \notin approvedEver
    /\ codesSent[handlers[h].sender] = 1

(***************************************************************************)
(* C4: under dmPolicy allowlist a direct message passes the policy gate    *)
(* exactly when its sender matches the configured entries united with the  *)
(* persisted ones; otherwise it is dropped without pairing request or code. *)
(***************************************************************************)
C4_AllowlistGate ==
  \A h \in DOMAIN handlers :
    LET s == handlers[h]
    IN (s.isDm /\ DmPolicyOf(s.config) = "allowlist" /\ ReadDone(s)) =>
         /\ Has(s, "gate") <=> Matches(DmAllowSet(s), s.sender)
         /\ ~Matches(DmAllowSet(s), s.sender) =>
              /\ s.pc = "done"
              /\ ~Dispatched(s) /\ ~UpsertAttempted(s) /\ ~ReplyAttempted(s)
         /\ ~UpsertAttempted(s) /\ ~CodeAttempted(s)

\* a sender that only the persisted store lists passed the allowlist gate
C4_Witness ==
  \E h \in DOMAIN handlers :
    LET s == handlers[h]
    IN /\ s.isDm /\ DmPolicyOf(s.config) = "allowlist" /\ Has(s, "gate")
       /\ s.sender \in s.persisted
       /\ ~Matches(NormalizedSet(Range(s.config.allowFrom)), s.sender)
       /\ s.config.allowFrom # <<BlankEntry>>

(***************************************************************************)
(* C5: under dmPolicy open every non-empty direct message reaches command  *)
(* gating whether or not its sender matches, and no pairing request is     *)
(* upserted and no pairing code sent for it.                               *)
(***************************************************************************)
C5_OpenProceeds ==
  \A h \in DOMAIN handlers :
    LET s == handlers[h]
    IN (s.isDm /\ DmPolicyOf(s.config) = "open" /\ ReadDone(s)) =>
         /\ Has(s, "gate")
         /\ ~UpsertAttempted(s) /\ ~CodeAttempted(s)

\* an open-policy DM of a sender that matches nothing reached command gating
C5_Witness ==
  \E h \in DOMAIN handlers :
    LET s == handlers[h]
    IN /\ s.isDm /\ DmPolicyOf(s.config) = "open" /\ Has(s, "gate")
       /\ ~Matches(DmAllowSet(s), s.sender)
       /\ Dispatched(s)


(***************************************************************************)
(* C6: a group message is never dispatched under groupPolicy disabled;     *)
(* under groupPolicy allowlist it is dispatched only if its sender matches *)
(* groupAllowFrom united with the persisted entries, otherwise it is       *)
(* dropped and no pairing code is issued.                                  *)
(***************************************************************************)
GroupAllowSet(s) ==
  NormalizedSet(Range(s.config.groupAllowFrom)) \cup NormalizedSet(s.persisted)

C6_GroupGate ==
  \A h \in DOMAIN handlers :
    LET s == handlers[h]
    IN (~s.isDm /\ s.log # <<>>) =>
         /\ GroupPolicyOf(s.config) = "disabled" =>
              s.pc = "done" /\ s.log = <<"inbound">>
         /\ GroupPolicyOf(s.config) = "allowlist" =>
              /\ Dispatched(s) => Matches(GroupAllowSet(s), s.sender)
              /\ Has(s, "gate") => Matches(GroupAllowSet(s), s.sender)
              /\ (ReadDone(s) /\ ~Matches(GroupAllowSet(s), s.sender)) =>
                   s.pc = "done" /\ ~ReplyAttempted(s)
              /\ ~UpsertAttempted(s) /\ ~CodeAttempted(s)

\* an allowlist-policy group message of a sender listed in groupAllowFrom was
\* dispatched
C6_Witness ==
  \E h \in DOMAIN handlers :
    LET s == handlers[h]
    IN /\ ~s.isDm /\ GroupPolicyOf(s.config) = "allowlist"
       /\ Dispatched(s)
       /\ Matches(NormalizedSet(Range(s.config.groupAllowFrom)), s.sender)

(***************************************************************************)
(* C7: what groupPolicy open does with the allowlist                       *)
(***************************************************************************)
GroupOpen(s) == ~s.isDm /\ s.log # <<>> /\ GroupPolicyOf(s.config) = "open"

\* C7 as stated: under groupPolicy open the allowlist is not consulted while
\* the message is handled: the store is not read and the message is dispatched
C7_OpenNeverConsultsAllowlist ==
  \A h \in DOMAIN handlers :
    LET s == handlers[h]
    IN GroupOpen(s) =>
         /\ ~ReadDone(s) /\ ~Has(s, "authRead") /\ ~Has(s, "authReadFailed")
         /\ (s.pc = "done" /\ s.err = "none") => Dispatched(s)

\* C7 as amended: under groupPolicy open a group message passes the policy gate
\* whatever its sender, without a store read for the policy; it then reaches
\* command gating, and only the command gate can keep it from the responder
C7_OpenPassesPolicyGate ==
  \A h \in DOMAIN handlers :
    LET s == handlers[h]
    IN GroupOpen(s) =>
         /\ ~ReadDone(s)
         /\ s.pc # "groupGate"
         /\ s.pc # "groupAuth" => Has(s, "gate")
         /\ (s.pc = "done" /\ ~Dispatched(s)) => s.gate.shouldBlock

\* an open-policy group message of a sender outside a non-empty group allow set
\* was dispatched
C7_Witness ==
  \E h \in DOMAIN handlers :
    LET s == handlers[h]
    IN /\ GroupOpen(s) /\ Dispatched(s)
       /\ s.authorizer.configured /\ ~s.authorizer.allowed

(***************************************************************************)
(* C8: a failed read of the persisted store is treated as an empty         *)
(* persisted set: the decision is the one the configured entries give, and *)
(* the failure does not end the handler with an error.                     *)
(***************************************************************************)
ConfiguredSet(s) ==
  NormalizedSet(Range(IF s.isDm THEN s.config.allowFrom ELSE s.config.groupAllowFrom))

ConfiguredMatch(s) == Matches(ConfiguredSet(s), s.sender)

C8_ReadFailureDegrades ==
  \A h \in DOMAIN handlers :
    LET s == handlers[h]
    IN /\ Has(s, "readFailed") =>
            /\ s.persisted = {}
            /\ s.err = "none" \/ Dispatched(s)
            /\ s.isDm =>
                 /\ Has(s, "gate") <=>
                      \/ DmPolicyOf(s.config) = "open"
                      \/ DmPolicyOf(s.config) # "disabled" /\ ConfiguredMatch(s)
                 /\ (s.pc = "upsert" \/ UpsertAttempted(s)) <=>
                      (DmPolicyOf(s.config) = "pairing" /\ ~ConfiguredMatch(s))
            /\ ~s.isDm =>
                 (s.pc = "done" /\ ~Has(s, "gate") /\ s.log = <<"inbound", "readFailed">>)
                   <=> ~ConfiguredMatch(s)
       /\ Has(s, "authReadFailed") =>
            /\ s.authPersisted = {}
            /\ s.err = "none" \/ Dispatched(s)
            /\ Has(s, "gate")
            /\ s.authorizer = [configured |-> ConfiguredSet(s) # {},
                               allowed |-> ConfiguredMatch(s)]

\* an allowlist-policy DM of an approved sender was dropped, without an error,
\* because the read of the store failed
C8_Witness ==
  \E h \in DOMAIN handlers :
    LET s == handlers[h]
    IN /\ s.isDm /\ DmPolicyOf(s.config) = "allowlist"
       /\ Has(s, "readFailed") /\ s.pc = "done" /\ s.err = "none"
       /\ s.sender \in allowStore
       /\ ~Has(s, "gate")

(***************************************************************************)
(* C9: a message that passed the policy gate is dispatched exactly when    *)
(* the command gate does not block; the authorizer is configured exactly   *)
(* when the effective allowlist is non-empty and allowed exactly when the  *)
(* sender matched it; the envelope carries the gate's commandAuthorized.   *)
(***************************************************************************)
AuthSet(s) == ConfiguredSet(s) \cup NormalizedSet(s.authPersisted)

C9_CommandGate ==
  \A h \in DOMAIN handlers :
    LET s == handlers[h]
    IN Has(s, "gate") =>
         /\ s.authorizer.configured <=> (AuthSet(s) # {})
         /\ s.authorizer.allowed <=> Matches(AuthSet(s), s.sender)
         /\ s.gate.shouldBlock => s.pc = "done" /\ ~Dispatched(s)
         /\ s.pc = "done" => (Dispatched(s) <=> ~s.gate.shouldBlock)
         /\ (~s.gate.shouldBlock) => s.envAuth = s.gate.commandAuthorized

\* a control command of a matching sender was dispatched with CommandAuthorized
C9_Witness ==
  \E h \in DOMAIN handlers :
    LET s == handlers[h]
    IN /\ Dispatched(s) /\ s.hasControlCommand
       /\ s.authorizer.configured /\ s.authorizer.allowed
       /\ s.gate.commandAuthorized /\ s.envAuth

(***************************************************************************)
(* C10: no failure in the handling of a text, reply or markdown event      *)
(* escapes its handler: the error goes to the error sink under the label   *)
(* of the event kind, and later events are still received and handled.     *)
(***************************************************************************)
C10_NoErrorEscapes ==
  /\ ~crashed
  /\ \A h \in DOMAIN handlers :
       LET s == handlers[h]
       IN s.err # "none" =>
            /\ s.pc = "done"
            /\ s.ev = "text" => s.err = "handle text message"
            /\ s.ev = "reply" => s.err = "handle reply message"
            /\ s.ev = "markdown" => s.err = "handle markdown message"

\* after the handling of one event failed, a later event of the same account got
\* its pairing code
C10_Witness ==
  \E g, h \in DOMAIN handlers :
    /\ handlers[g].err # "none" /\ handlers[g].log = <<>>
    /\ handlers[g].seq < handlers[h].seq
    /\ handlers[h].pc = "done" /\ handlers[h].err = "none"
    /\ Has(handlers[h], "code")

(***************************************************************************)
(* C11: the retry loop of the session open                                 *)
(***************************************************************************)
Failures(run) == Cardinality({i \in 1..Len(run.tries) : ~run.tries[i]})

\* the run has been through startXmtpBus until it opened, threw or still retries
OpenFailed(run) == run.pc = "threw" /\ run.thrown[1] = "start"

RunOpened(run) == run.bus # "none"
RunEnded(run) == run.pc \in {"returned", "threw"}

\* C15: after a successful open the run does not end before the abort signal
\* fired, and the run that ends has closed the session, removed the entry of
\* its session from the map and returned
C15_AbortThenTeardown ==
  \A r \in RunIds :
    RunOpened(runs[r]) /\ RunEnded(runs[r]) =>
      /\ runs[r].aborted
      /\ runs[r].bus = "closed"
      /\ activeBuses[runs[r].acct] # r
      /\ runs[r].pc = "returned"

\* the part of C15 that stands: no run ends before its signal fired, a signal
\* that fired before the wait began is seen, and a close that completes is
\* followed by the removal of the entry and the return
C15_NoEndBeforeAbort ==
  \A r \in RunIds :
    /\ RunOpened(runs[r]) /\ RunEnded(runs[r]) => runs[r].aborted
    /\ runs[r].pc = "waiting" => ~runs[r].aborted
    /\ runs[r].pc = "returned" => runs[r].bus = "closed" /\ activeBuses[runs[r].acct] # r

\* no missed signal: a run that opened and whose signal fired ends
C15_AbortLeadsToEnd ==
  \A r \in RunIds :
    (RunOpened(runs[r]) /\ runs[r].aborted) ~> RunEnded(runs[r])

(***************************************************************************)
(* C16: no stale entry in the active-session map                           *)
(***************************************************************************)
ClosePerformed(run) == run.bus \in {"closed", "closeFailed"}

\* C16: the map holds no entry for a session on which close has been
\* performed, whether the close completed or failed
C16_NoStaleEntry ==
  \A a \in Accounts :
    activeBuses[a] # NoBus => ~ClosePerformed(runs[activeBuses[a]])

\* the part of C16 that stands: no entry for a session whose close completed
C16_NoEntryAfterCompletedClose ==
  \A a \in Accounts :
    activeBuses[a] # NoBus => runs[activeBuses[a]].bus # "closed"

\* start and stop of one account leave the entries of the other accounts alone
C16_OtherEntriesKept ==
  [][\A r \in RunIds, a \in Accounts :
       (runs'[r] # runs[r] /\ runs'[r].acct # a /\ stops' = stops)
         => activeBuses'[a] = activeBuses[a]]_vars

(***************************************************************************)
(* C17: one live session per account                                       *)
(***************************************************************************)
LiveSessions(a) == {r \in RunIds : runs[r].acct = a /\ runs[r].bus = "live"}

\* C17: at most one session per account id is opened and not yet closed
C17_OneLiveSession ==
  \A a \in Accounts : Cardinality(LiveSessions(a)) <= 1

(***************************************************************************)
(* C12: the self-echo filter                                               *)
(***************************************************************************)
FromAgent(s) == s.pc # "idle" /\ s.inboxId = Agent.inboxId

\* C12: an event of any of the three kinds whose sender is the account's own
\* identity is discarded before classification: it never reaches the policy
\* gate, records no activity, and triggers no reply, pairing request or dispatch
C12_SelfEchoDiscarded ==
  /\ \A h \in DOMAIN handlers :
       FromAgent(handlers[h]) =>
         /\ handlers[h].pc = "done"
         /\ handlers[h].log = <<>>
         /\ handlers[h].policy = "none"
         /\ handlers[h].err = "none"
  /\ codesSent[EffectiveSenderIdentifier(Agent)] = 0
  /\ \A key \in pending : key.id # EffectiveSenderIdentifier(Agent)

\* a reply event of the account's own identity was received and discarded
C12_Witness ==
  \E h \in DOMAIN handlers :
    /\ FromAgent(handlers[h])
    /\ handlers[h].ev = "reply"
    /\ handlers[h].isDm
    /\ handlers[h].pc = "done"
    /\ handlers[h].seq = 2

(***************************************************************************)
(* C13: auto-consent against the policy gate                               *)
(***************************************************************************)
\* the DM policy gate would let a message of the sender proceed, under the
\* configuration and the persisted entries of the conversation event
GateWouldProceed(c) ==
  LET policy == DmPolicyOf(c.config)
      effective == NormalizedSet(Range(c.config.allowFrom)) \cup NormalizedSet(c.store)
  IN \/ policy = "open"
     \/ policy = "pairing"
     \/ policy = "allowlist" /\ Matches(effective, c.sender)

ConsentDecided(c) == c.isDm /\ c.known /\ c.state \in {"allowed", "refused"}

\* C13: for a direct-conversation sender whose address is known, the predicate
\* allows the conversation whenever the DM policy gate would let the sender
\* proceed (open; pairing; allowlist with a match among configured plus
\* persisted entries) and refuses it under disabled
C13_ConsentFollowsGate ==
  ConsentDecided(consents) =>
    /\ GateWouldProceed(consents) => consents.state = "allowed"
    /\ DmPolicyOf(consents.config) = "disabled" => consents.state = "refused"

\* the part of C13 that stands: the same with the configured entries alone
C13_ConsentFollowsConfigured ==
  ConsentDecided(consents) =>
    /\ GateWouldProceed([consents EXCEPT !.store = {}]) => consents.state = "allowed"
    /\ DmPolicyOf(consents.config) = "disabled" => consents.state = "refused"
    /\ consents.state = "allowed" => GateWouldProceed(consents)

(***************************************************************************)
(* C14: sendReply and its reference id                                     *)
(***************************************************************************)
IsBlank(str) == \A i \in 1..Len(str) : str[i] = " "

\* C14: sendReply with an empty or whitespace-only reference id fails at the
\* call site: the destination is not resolved and nothing is sent or delivered.
\* With a non-empty reference id the destination is resolved once and, once
\* resolved, exactly one message is sent, to the resolved conversation: it is
\* the one message delivered when the call returns, and a call whose resolution
\* or send rejects delivers nothing.
C14_SendReplyReference ==
  \A i \in 1..Len(calls) :
    LET c == calls[i]
    IN c.op = "sendReply" =>
         /\ IsBlank(c.reference) =>
              /\ c.threw = "referenceMessageId is required"
              /\ c.resolves = 0
              /\ c.attempts = <<>>
              /\ c.delivered = <<>>
         /\ ~IsBlank(c.reference) =>
              /\ c.resolves = 1
              /\ c.threw # "referenceMessageId is required"
              /\ Len(c.attempts) = (IF c.conv # NoConversation THEN 1 ELSE 0)
              /\ \A j \in 1..Len(c.attempts) : c.attempts[j].conv = c.conv
              /\ c.threw = "none" => Len(c.delivered) = 1 /\ c.delivered = c.attempts
              /\ c.threw # "none" => c.delivered = <<>>
              /\ c.reference[1] # " " /\ c.reference[Len(c.reference)] # " "

\* one call failed on a whitespace-only reference id, another delivered a reply
C14_Witness ==
  /\ Len(calls) = 2
  /\ calls[1].op = "sendReply"
  /\ calls[1].threw = "referenceMessageId is required"
  /\ calls[2].op = "sendReply"
  /\ calls[2].threw = "none"
  /\ calls[2].delivered = <<[conv |-> <<"dm", AddrOf("a")>>, kind |-> "reply",
                             reference |-> <<"m", "1">>]>>

(***************************************************************************)
(* C18: one result per target, in order, whatever fails                    *)
(***************************************************************************)
\* the number of targets whose loop body has completed
Completed(r) == IF r.pc = "returned" THEN Len(r.targets) ELSE IF r.i = 0 THEN 0 ELSE r.i - 1

IsErrorResult(result) == result.status \in {"failed", "already-registered"}

\* C18: register processes the targets one after the other in their resolved
\* order and produces exactly one result per target in that order; an error on
\* one chain yields the result of that chain only, and every remaining chain is
\* still processed
C18_OneResultPerTargetInOrder ==
  /\ Len(reg.chainResults) = Completed(reg)
  /\ \A k \in 1..Len(reg.chainResults) : reg.chainResults[k].chain = reg.targets[k]
  /\ \A k \in 1..Len(reg.feeReads) : reg.feeReads[k].chain = reg.targets[k]
  /\ reg.pc \in {"fee", "submit", "receipt"} =>
       Len(reg.feeReads) = (IF reg.pc = "fee" THEN reg.i - 1 ELSE reg.i)
  /\ reg.pc = "returned" =>
       /\ Len(reg.chainResults) = Len(reg.targets)
       /\ Len(reg.feeReads) = Len(reg.targets)
  /\ Len(reg.caught) = Cardinality({k \in 1..Len(reg.chainResults) :
                                      IsErrorResult(reg.chainResults[k])})

\* the first of two chains failed and the second was registered all the same
C18_Witness ==
  /\ reg.pc = "returned"
  /\ Len(reg.targets) = 2
  /\ reg.chainResults[1].status = "failed"
  /\ reg.chainResults[2].status = "success"
  /\ reg.chainResults[2].chain = reg.targets[2]

(***************************************************************************)
(* C19: a dry run submits nothing                                          *)
(***************************************************************************)
\* the fee the two accessors of a chain showed, in decimal digits
ObservedFeeWei(read) ==
  LET fee == IF read.primary.kind = "bigint" THEN read.primary.value
             ELSE IF read.secondary.kind = "bigint" THEN read.secondary.value
             ELSE 0
  IN CASE fee = 0 -> <<"0">>
       [] fee = 12 -> <<"1", "2">>

\* C19: with dryRun no transaction is submitted on any chain, each chain is
\* reported with status dry-run carrying the observed fee, and N targets give
\* N dry-run results and no success
C19_DryRunSubmitsNothing ==
  reg.dryRun =>
    /\ reg.txs = <<>>
    /\ reg.receipts = <<>>
    /\ \A k \in 1..Len(reg.chainResults) :
         /\ reg.chainResults[k].status = "dry-run"
         /\ reg.chainResults[k].chain = reg.targets[k]
         /\ reg.chainResults[k].registrationFeeWei = ObservedFeeWei(reg.feeReads[k])
         /\ reg.chainResults[k].txHash = NoHash
    /\ reg.pc = "returned" => Len(reg.chainResults) = Len(reg.targets)

\* a dry run over two chains returned, one fee read through the fallback accessor
C19_Witness ==
  /\ reg.dryRun
  /\ reg.pc = "returned"
  /\ Len(reg.targets) = 2
  /\ Len(reg.chainResults) = 2
  /\ reg.chainResults[1].registrationFeeWei = <<"1", "2">>
  /\ reg.feeReads[1].primary.kind = "rejects"
  /\ reg.chainResults[2].registrationFeeWei = <<"0">>

(***************************************************************************)
(* C20: the status of a chain in live mode                                 *)
(***************************************************************************)
\* the text contains "already registered", whatever the case of its letters
ContainsAlreadyRegistered(message) ==
  \E i \in 1..Len(message) :
    /\ i + 2 <= Len(message)
    /\ LowerWord(message[i]) = "already"
    /\ message[i + 1] = " "
    /\ LowerWord(message[i + 2]) = "registered"

\* the text contains "already" and "registered" with only whitespace, and at
\* least one whitespace character, between them, whatever the case
ContainsAlreadyThenRegistered(message) ==
  \E i, j \in 1..Len(message) :
    /\ i + 1 < j
    /\ LowerWord(message[i]) = "already"
    /\ LowerWord(message[j]) = "registered"
    /\ \A k \in (i + 1)..(j - 1) : message[k] \in {" ", "\t", "\n"}

\* the text of a thrown value
TextOf(error) == IF error.isError THEN error.message ELSE error.value

\* the k-th error result and the error that was caught for it
ErrorIndex(r, k) ==
  Cardinality({m \in 1..k : IsErrorResult(r.chainResults[m])})

SubmittedFor(r, chain) == \E t \in 1..Len(r.txs) : r.txs[t].chain = chain

ReceiptFor(r, chain) ==
  LET t == CHOOSE t \in 1..Len(r.receipts) : r.receipts[t].chain = chain
  IN r.receipts[t].status

HasReceipt(r, chain) == \E t \in 1..Len(r.receipts) : r.receipts[t].chain = chain

\* what C20 says of every result of a live invocation but the classification
\* of the error texts
LiveStatuses(matches(_)) ==
  ~reg.dryRun =>
    \A k \in 1..Len(reg.chainResults) :
      LET result == reg.chainResults[k]
          chain == result.chain
      IN /\ result.status \in {"success", "failed", "already-registered"}
         /\ result.status = "success" =>
              /\ SubmittedFor(reg, chain)
              /\ HasReceipt(reg, chain) /\ ReceiptFor(reg, chain) = "success"
              /\ result.txHash # NoHash
         /\ (HasReceipt(reg, chain) /\ ReceiptFor(reg, chain) = "reverted") =>
              result.status = "failed"
         /\ IsErrorResult(result) =>
              LET error == reg.caught[ErrorIndex(reg, k)].error
              IN /\ reg.caught[ErrorIndex(reg, k)].chain = chain
                 /\ result.error = TextOf(error)
                 /\ (result.status = "already-registered") = matches(TextOf(error))

\* C20 as stated: in live mode a result is success only after a submitted
\* transaction with a success receipt, a non-success receipt gives failed, an
\* error whose text matches "already registered" case-insensitively gives
\* already-registered, and every other error gives failed with its raw text
C20_LiveStatusByPhrase == LiveStatuses(ContainsAlreadyRegistered)

\* C20 as amended: the same, where the error text matches when it contains
\* "already" and "registered" separated by one or more whitespace characters of
\* any kind (the pattern already\s+registered), case-insensitively
C20_LiveStatusByPattern == LiveStatuses(ContainsAlreadyThenRegistered)

\* live results of all three statuses, one of them for a reverted receipt
C20_Witness ==
  /\ ~reg.dryRun
  /\ Len(reg.chainResults) = 2
  /\ reg.chainResults[1].status = "already-registered"
  /\ reg.chainResults[1].error = <<"Agent", " ", "ALREADY", " ", "Registered">>
  /\ reg.chainResults[2].status = "failed"
  /\ HasReceipt(reg, reg.targets[2]) /\ ReceiptFor(reg, reg.targets[2]) = "reverted"

(***************************************************************************)
(* Target-chain resolution: what a caller expects                          *)
(***************************************************************************)
\* the chain id each input of the model stands for, 0 where it stands for none:
\* written down input by input, not computed by the resolver
ExpectedChainId(input) ==
  CASE input = <<"1">> -> 1
    [] input = <<"m", "a", "i", "n", "n", "e", "t">> -> 1
    [] input = <<" ", "M", "a", "i", "n", "-", "N", "e", "t">> -> 1
    [] input = <<"E", "I", "P", "1", "5", "5", ":", "1", "0">> -> 10
    [] input = <<"b", "a", "s", "e">> -> 8453
    [] input = <<"B", "a", "s", "e">> -> 8453
    [] input = <<"8", "4", "5", "3">> -> 8453
    [] OTHER -> 0

ExpectedEntryId(entry) ==
  IF entry.kind = "number" THEN entry.value ELSE ExpectedChainId(entry.value)

\* the ids of the list the resolution has to use: requested, else configured
\* defaults, else mainnet
ExpectedIds(t) ==
  LET defaults == FieldOf(t.accountErc8004, "defaultChains")
  IN IF t.requestedChains # None /\ t.requestedChains[1] # <<>>
     THEN [i \in 1..Len(t.requestedChains[1]) |-> ExpectedChainId(t.requestedChains[1][i])]
     ELSE IF defaults # None /\ defaults[1] # <<>>
          THEN [i \in 1..Len(defaults[1]) |-> ExpectedEntryId(defaults[1][i])]
          ELSE <<1>>

RECURSIVE FirstSeen(_)
\* a list without the later occurrences of its elements
FirstSeen(ids) ==
  IF ids = <<>> THEN <<>>
  ELSE LET front == FirstSeen(SubSeq(ids, 1, Len(ids) - 1))
       IN IF ids[Len(ids)] \in Range(front) THEN front ELSE Append(front, ids[Len(ids)])

TargetIds(targets) == [i \in 1..Len(targets) |-> ChainOf(targets[i].chain).id]

OneMainnetOne == Some(<< <<"1">>, <<"m", "a", "i", "n", "n", "e", "t">>, <<"1">> >>)

\* C21: a resolution that returns used the requested chains if any, else the
\* configured default chains if any, else mainnet alone, and its targets are
\* the distinct chain ids of that list in first-seen order, whatever form the
\* inputs take; without overrides a list of resolvable inputs always returns,
\* and ["1","mainnet","1"] returns exactly one target, for chain id 1
C21_TargetsDedupedInOrder ==
  tgt.pc = "done" =>
    /\ tgt.out.ok => TargetIds(tgt.out.value) = FirstSeen(ExpectedIds(tgt))
    /\ (tgt.accountErc8004 = None /\ 0 \notin Range(ExpectedIds(tgt))) => tgt.out.ok
    /\ (tgt.requestedChains = OneMainnetOne /\ tgt.out.ok) =>
         TargetIds(tgt.out.value) = <<1>>

\* ["1","mainnet","1"] was resolved, to one target
C21_Witness ==
  /\ tgt.pc = "done"
  /\ tgt.requestedChains = OneMainnetOne
  /\ tgt.out.ok
  /\ Len(tgt.out.value) = 1

\* the inputs of the list the resolution has to use, as strings
ChosenInputs(t) ==
  LET defaults == FieldOf(t.accountErc8004, "defaultChains")
  IN IF t.requestedChains # None /\ t.requestedChains[1] # <<>>
     THEN t.requestedChains[1]
     ELSE IF defaults # None /\ defaults[1] # <<>>
          THEN [i \in 1..Len(defaults[1]) |-> StringOfEntry(defaults[1][i])]
          ELSE << <<"m", "a", "i", "n", "n", "e", "t">> >>

\* the inputs of the list that stand for no chain
Unresolved(t) ==
  {ChosenInputs(t)[i] : i \in {j \in 1..Len(ChosenInputs(t)) : ExpectedIds(t)[j] = 0}}

\* the text holds the word, character by character
Names(text, word) ==
  \E i \in 1..(Len(text) - Len(word) + 1) : SubSeq(text, i, i + Len(word) - 1) = word

\* C22: when an input of the list is unresolvable the resolution fails as a
\* whole, and its error names every unresolved input, whatever the resolvable
\* inputs and the RPC and registry overrides are
C22_EveryUnresolvedNamed ==
  (tgt.pc = "done" /\ Unresolved(tgt) # {}) =>
    /\ ~tgt.out.ok
    /\ \A input \in Unresolved(tgt) : Names(tgt.out.value, input)

\* the registry overrides of the account hold no malformed address
RegistryOverridesValid(t) ==
  LET record == FieldOf(t.accountErc8004, "registryAddresses")
  IN record = None \/ \A i \in 1..Len(record[1]) : IsAddress(Trim(record[1][i][2]))

\* the same, for the requests whose registry overrides are all well-formed
C22_EveryUnresolvedNamedWithValidOverrides ==
  (tgt.pc = "done" /\ Unresolved(tgt) # {} /\ RegistryOverridesValid(tgt)) =>
    /\ ~tgt.out.ok
    /\ \A input \in Unresolved(tgt) : Names(tgt.out.value, input)

\* with an unresolvable input no partial list is ever returned
C22_NoPartialList ==
  (tgt.pc = "done" /\ Unresolved(tgt) # {}) => ~tgt.out.ok

(***************************************************************************)
(* Token URI resolution: what a caller expects                             *)
(***************************************************************************)
NonBlank(value) == value # Undefined /\ ~IsBlank(value)

\* the configured token URI, or Undefined
ConfiguredTokenUri(t) ==
  LET tokenUri == FieldOf(t.accountErc8004, "tokenUri")
  IN IF tokenUri = None THEN Undefined ELSE tokenUri[1]

\* the generated descriptor of an address: a data URI of base64-encoded JSON
\* whose only varying part is the address
DescriptorOf(accountAddress) ==
  <<"data:application/json;base64,", "base64",
    "{\"type\":\"https://eips.ethereum.org/EIPS/eip-8004#registration-v1\",",
    "\"name\":\"", "Agent",
    "\",\"active\":true,\"services\":[{\"name\":\"XMTP\",\"endpoint\":\"">>
  \o accountAddress \o <<"\"}]}">>

\* C23: a non-blank argument is used, with source arg; otherwise a non-blank
\* configured value, with source config; otherwise the generated value, with
\* source generated, a data:application/json;base64 URI that depends on the
\* account address alone
C23_TokenUriPrecedence ==
  uri.pc = "done" =>
    /\ NonBlank(uri.tokenUriArg) =>
         uri.out = [tokenUri |-> Trim(uri.tokenUriArg), source |-> "arg"]
    /\ (~NonBlank(uri.tokenUriArg) /\ NonBlank(ConfiguredTokenUri(uri))) =>
         uri.out = [tokenUri |-> Trim(ConfiguredTokenUri(uri)), source |-> "config"]
    /\ (~NonBlank(uri.tokenUriArg) /\ ~NonBlank(ConfiguredTokenUri(uri))) =>
         /\ uri.out.source = "generated"
         /\ uri.out.tokenUri[1] = "data:application/json;base64,"
         /\ uri.out.tokenUri = DescriptorOf(uri.accountAddress)

\* a blank argument over a configured value, and a generated value for a named
\* account
C23_Witness ==
  /\ uri.pc = "done"
  /\ uri.tokenUriArg = <<" ">>
  /\ uri.accountId = <<"a", "l", "i", "c", "e">>
  /\ uri.out.source \in {"config", "generated"}
  /\ uri.out.source = "generated" => ~NonBlank(ConfiguredTokenUri(uri))

(***************************************************************************)
(* Accounts: what a caller expects                                         *)
(***************************************************************************)
\* a value is given and is not blank
Given(value) == value # None /\ ~IsBlank(value[1])

\* the keys of the named-accounts map of a configuration, in order
NamedAccountKeys(cfg) ==
  IF cfg.xmtp = None \/ cfg.xmtp[1].accounts = None THEN <<>>
  ELSE [i \in 1..Len(cfg.xmtp[1].accounts[1]) |-> cfg.xmtp[1].accounts[1][i][1]]

\* some secret material is present: an inline secret or a file reference at
\* the top level, or an environment variable
SecretMaterial(cfg, env) ==
  \/ /\ cfg.xmtp # None
     /\ \E f \in {"walletKey", "walletKeyFile", "dbEncryptionKey", "dbEncryptionKeyFile"} :
          Given(cfg.xmtp[1].top[f])
  \/ Given(env.XMTP_WALLET_KEY)
  \/ Given(env.XMTP_DB_ENCRYPTION_KEY)

\* C26: listAccountIds returns exactly the keys of a present, non-empty
\* named-accounts map, whatever the environment and the top-level secrets are;
\* otherwise it returns ["default"] if and only if some secret material is
\* present, and the empty list if none is
C26_ListAccountIds ==
  account.pc = "listed" =>
    IF NamedAccountKeys(account.cfg) # <<>>
    THEN account.out = NamedAccountKeys(account.cfg)
    ELSE /\ SecretMaterial(account.cfg, account.env) => account.out = <<<<"d", "e", "f", "a", "u", "l", "t">>>>
         /\ ~SecretMaterial(account.cfg, account.env) => account.out = <<>>

\* no named accounts, no top-level secret, an environment variable: the
\* implicit default account
C26_Witness ==
  /\ account.pc = "listed"
  /\ NamedAccountKeys(account.cfg) = <<>>
  /\ account.cfg.xmtp # None
  /\ account.cfg.xmtp[1].top["walletKey"] = Some(<<" ">>)
  /\ account.cfg.xmtp[1].top["dbEncryptionKey"] = None
  /\ account.cfg.xmtp[1].top["walletKeyFile"] = None
  /\ account.cfg.xmtp[1].top["dbEncryptionKeyFile"] = None
  /\ account.env.XMTP_WALLET_KEY = None
  /\ account.env.XMTP_DB_ENCRYPTION_KEY # None
  /\ account.out = <<<<"d", "e", "f", "a", "u", "l", "t">>>>

\* named accounts listed without a default, next to top-level secrets and
\* environment variables
C26_WitnessNamed ==
  /\ account.pc = "listed"
  /\ account.out = <<<<"a", "l", "i", "c", "e">>, <<"b", "o", "b">>>>
  /\ SecretMaterial(account.cfg, account.env)

\* the account id a call of resolveAccount is about
AccountIdOf(a) ==
  IF a.accountId = None THEN <<"d", "e", "f", "a", "u", "l", "t">> ELSE a.accountId[1]

\* the account id names an entry of the named-accounts map
IsNamedAccount(a) == AccountIdOf(a) \in Range(NamedAccountKeys(a.cfg))

\* a file reference is given, and whether its file can be read and holds text
FileReadable(a, fileField) ==
  /\ Trim(fileField[1]) \in DOMAIN a.fs
  /\ a.fs[Trim(fileField[1])] # None

FileText(a, fileField) == Trim(a.fs[Trim(fileField[1])][1])

\* what precedence gives one secret: the file, the inline value, the
\* environment variable of the default account, or nothing
ByPrecedence(a, fileField, inlineField, envValue, secret, source) ==
  /\ (Given(fileField) /\ FileReadable(a, fileField) /\ FileText(a, fileField) # <<>>) =>
       /\ secret = FileText(a, fileField)
       /\ source = "secretFile"
  /\ (Given(fileField) /\ ~FileReadable(a, fileField)) =>
       /\ secret = <<>>
       /\ source = "none"
  /\ (~Given(fileField) /\ Given(inlineField)) =>
       /\ secret = Trim(inlineField[1])
       /\ source = "config"
  /\ (~Given(fileField) /\ ~Given(inlineField)) =>
       IF AccountIdOf(a) = <<"d", "e", "f", "a", "u", "l", "t">> /\ Given(envValue)
       THEN secret = Trim(envValue[1]) /\ source = "env"
       ELSE secret = <<>> /\ source = "none"
  /\ source = "env" => AccountIdOf(a) = <<"d", "e", "f", "a", "u", "l", "t">>
  /\ (secret = <<>>) = (source = "none")

ValidPrivateKey(secret) ==
  /\ Len(secret) = 2 + AddrDigits
  /\ SubSeq(secret, 1, 2) = <<"0", "x">>
  /\ \A i \in 3..Len(secret) : secret[i] \in HexLower
  /\ secret # KeyOf("0")

\* C28: resolveAccount never throws, and configured is true if and only if
\* both the wallet secret and the session secret resolved to non-empty strings,
\* whether or not an address can be derived: an invalid wallet secret with a
\* session secret gives configured = true and address ""
C28_ConfiguredIffBothSecrets ==
  account.pc = "resolved" =>
    /\ account.out.ok
    /\ account.out.value.configured =
         (account.out.value.walletKey # <<>> /\ account.out.value.dbEncryptionKey # <<>>)
    /\ (/\ account.out.value.walletKey # <<>>
        /\ ~ValidPrivateKey(account.out.value.walletKey)
        /\ account.out.value.dbEncryptionKey # <<>>) =>
         /\ account.out.value.configured
         /\ account.out.value.address = <<>>

\* an account whose wallet secret is not a private key and whose session
\* secret is present
C28_Witness ==
  /\ account.pc = "resolved"
  /\ account.out.ok
  /\ account.out.value.walletKey = ZeroKey
  /\ account.out.value.dbEncryptionKey # <<>>
  /\ account.out.value.configured
  /\ account.out.value.address = <<>>

\* the address of a private key of the model, lower-case: 0x and one hex digit
\* per key digit, written down digit by digit
AddressOfKey(secret) ==
  <<"0", "x">> \o [i \in 1..AddrDigits |->
                     IF secret[i + 2] = "1" THEN "a" ELSE IF secret[i + 2] = "a" THEN "b"
                     ELSE "0"]

EntryOf(a) ==
  LET accounts == IF a.cfg.xmtp = None \/ a.cfg.xmtp[1].accounts = None THEN <<>>
                  ELSE a.cfg.xmtp[1].accounts[1]
      hits == {i \in 1..Len(accounts) : accounts[i][1] = AccountIdOf(a)}
  IN IF hits = {} THEN [f \in AccountFields |-> None]
     ELSE accounts[CHOOSE i \in hits : TRUE][2]

\* the channel-level fields
ChannelLevel(a) ==
  IF a.cfg.xmtp = None THEN [f \in AccountFields |-> None] ELSE a.cfg.xmtp[1].top

C24_AlwaysATextResult ==
  cmd.pc = "done" =>
    /\ cmd.out.settled = "resolved"
    /\ cmd.out.text \in {"help", "invalid-arguments", "missing-config", "prompt", "summary"}

\* an invocation that reached the engine returned a text whenever the engine
\* returned, and rejected with the engine's error whenever the engine threw
C24_RejectsExactlyWhenEngineThrows ==
  (cmd.pc = "done" /\ cmd.engineCalls = 1) =>
    (cmd.out.settled = "rejected") = ~cmd.result[1].ok

\* the command context carries no config
NoContextConfig(c) == c.ctx = None \/ c.ctx[1].config = None

\* C25: the engine is never invoked when the parsed arguments request help,
\* hold a parse error, or the context carries no config; help is answered
\* before parse errors, and parse errors before the missing config
C25_EngineGuarded ==
  cmd.pc = "done" =>
    /\ (cmd.parsed.help \/ cmd.parsed.errors # <<>> \/ NoContextConfig(cmd)) =>
         cmd.engineCalls = 0
    /\ cmd.parsed.help => cmd.out = Text("help")
    /\ (~cmd.parsed.help /\ cmd.parsed.errors # <<>>) =>
         cmd.out = Text("invalid-arguments")
    /\ (~cmd.parsed.help /\ cmd.parsed.errors = <<>> /\ NoContextConfig(cmd)) =>
         cmd.out = Text("missing-config")

\* an unknown option followed by --help, without a config: the help text, the
\* unknown option recorded, the engine not invoked
C25_Witness ==
  /\ cmd.pc = "done"
  /\ cmd.ctx # None
  /\ cmd.ctx[1].args = << <<"-", "-", "b", "a", "d">>, <<"-", "-", "h", "e", "l", "p">> >>
  /\ cmd.ctx[1].config = None
  /\ cmd.parsed.help
  /\ Len(cmd.parsed.errors) = 1
  /\ cmd.out = Text("help")
  /\ cmd.engineCalls = 0

(***************************************************************************)
(* C31: the resolved account is not cached across messages                 *)
(***************************************************************************)
\* the edits made before the n-th event was handled
EditsBefore(n) == {i \in 1..Len(liveCfg.edits) : liveCfg.edits[i].after < n}

\* the configuration as it was when the n-th event was handled
ConfigInForce(n) ==
  IF EditsBefore(n) = {} THEN liveCfg.atStart
  ELSE liveCfg.edits[CHOOSE i \in EditsBefore(n) : \A j \in EditsBefore(n) : j <= i].config

\* the message of handler invocation s has been gated by configuration c
GatedUnder(s, c) ==
  /\ s.config = ConfigRead(c, s.isDm)
  /\ s.isDm =>
       /\ s.policy = DmPolicyOf(c)
       /\ (ReadDone(s) /\ s.pc # "dmRead") =>
            LET allowed ==
                  Matches(NormalizedSet(Range(c.allowFrom)) \cup NormalizedSet(s.persisted),
                          s.sender)
            IN /\ Has(s, "gate") <=>
                    \/ DmPolicyOf(c) = "open"
                    \/ DmPolicyOf(c) \in {"pairing", "allowlist"} /\ allowed
               /\ (s.pc = "upsert" \/ UpsertAttempted(s)) <=>
                    (DmPolicyOf(c) = "pairing" /\ ~allowed)
  /\ ~s.isDm =>
       /\ s.policy = GroupPolicyOf(c)
       /\ s.pc \notin {"groupGate", "groupAuth"} =>
            (Has(s, "gate") <=>
               /\ GroupPolicyOf(c) # "disabled"
               /\ GroupPolicyOf(c) = "allowlist" =>
                    Matches(NormalizedSet(Range(c.groupAllowFrom))
                              \cup NormalizedSet(s.persisted), s.sender))

\* every message is gated by the configuration in force when it was handled
GatedByConfigInForce ==
  \A h \in DOMAIN handlers :
    handlers[h].log # <<>> => GatedUnder(handlers[h], ConfigInForce(handlers[h].seq))

\* an auto-consent decision uses the configuration as it is at the call
ConsentUsesLive ==
  consents' # consents =>
    /\ consents'.config = ConfigRead(liveCfg.now, TRUE)
    /\ consents'.known =>
         ((consents'.state = "allowed") <=>
            \/ DmPolicyOf(liveCfg.now) \in {"open", "pairing"}
            \/ /\ DmPolicyOf(liveCfg.now) = "allowlist"
               /\ Matches(NormalizedSet(Range(liveCfg.now.allowFrom)), consents'.sender))

\* C31: the policy decision of each inbound message and each auto-consent
\* decision use the configuration as it is when the event is handled, so every
\* message handled after an edit of dmPolicy, groupPolicy or an allowlist is
\* gated by the new values
C31_LiveConfigGates == []GatedByConfigInForce /\ [][ConsentUsesLive]_vars

\* the session started under the open policy, the policy was set to disabled
\* after the first message, and the second direct message was dropped
C31_Witness ==
  \E h \in DOMAIN handlers :
    LET s == handlers[h]
    IN /\ s.seq = 2 /\ s.isDm /\ s.pc = "done" /\ ReadDone(s)
       /\ liveCfg.atStart.dmPolicy = "open"
       /\ Len(liveCfg.edits) = 1 /\ liveCfg.edits[1].after = 1
       /\ liveCfg.now.dmPolicy = "disabled"
       /\ ~Has(s, "gate") /\ ~UpsertAttempted(s)

(***************************************************************************)
(* C32: activity recording around dispatch and delivery                    *)
(***************************************************************************)
SendCompleted == {"sendText", "sendReply", "code"}

\* in a log, every outbound activity record directly follows a send that
\* completed, and each completed send is recorded once
OutboundAfterSend(log) ==
  /\ \A i \in 1..Len(log) :
       log[i] = "outbound" => i > 1 /\ log[i - 1] \in SendCompleted
  /\ Cardinality({i \in 1..Len(log) : log[i] = "outbound"})
       = Cardinality({i \in 1..Len(log) : log[i] \in SendCompleted})

\* C32: for every accepted message the inbound activity is recorded before the
\* responder is dispatched, and an outbound activity is recorded only after the
\* send it belongs to (threaded reply, plain send, pairing-code reply) has
\* completed: never before the send and never for a send that failed
C32_ActivityOrder ==
  /\ \A h \in DOMAIN handlers :
       LET s == handlers[h]
       IN /\ Dispatched(s) =>
               /\ s.log[1] = "inbound"
               /\ Count(s, "inbound") = 1
          /\ OutboundAfterSend(s.log)
  /\ adapter.pc = "done" =>
       /\ OutboundAfterSend(adapter.log)
       /\ adapter.threw # "none" => "outbound" \notin Range(adapter.log)

\* an accepted message was answered with a threaded reply, and a call of
\* outbound.sendText failed at its send
C32_Witness ==
  /\ \E h \in DOMAIN handlers :
       handlers[h].log = <<"inbound", "read", "gate", "session", "dispatch",
                           "sendReply", "outbound">>
  /\ adapter.pc = "done" /\ adapter.threw = "send failed"

(***************************************************************************)
(* C33: a failed external call of the gate does not stop the other steps   *)
(***************************************************************************)
\* the sender of s matches the configured entries of its conversation kind
MatchesConfigured(s) == Matches(NormalizedSet(Range(s.conf)), s.sender)

ListedAccount(a) == a.pc = "resolved" /\ IsNamedAccount(a)

\* the account has neither a file reference nor an inline value for a secret,
\* and the environment variable of the secret is set
OnlyEnvGiven(fileField, inlineField, envValue) ==
  ~Given(fileField) /\ ~Given(inlineField) /\ Given(envValue)

\* the environment variable supplies the secret
FromEnv(envValue, secret, source) == secret = Trim(envValue[1]) /\ source = "env"

\* with a named-accounts map the listed ids are its keys: no implicit default
NoImplicitDefault ==
  (account.pc = "listed" /\ NamedAccountKeys(account.cfg) # <<>>) =>
    account.out = NamedAccountKeys(account.cfg)

EnvForDefaultOnly(a, fileField, inlineField, envValue, secret, source) ==
  OnlyEnvGiven(fileField, inlineField, envValue) =>
    IF AccountIdOf(a) = <<"d", "e", "f", "a", "u", "l", "t">>
    THEN FromEnv(envValue, secret, source)
    ELSE secret = <<>> /\ source = "none"

FullyResolved(input, accountErc8004) ==
  /\ ResolveChainByInput(input) # NoChain
  /\ ResolveRpcUrl(ChainOf(ResolveChainByInput(input)),
                   FieldOf(accountErc8004, "rpcUrls")).ok
  /\ ResolveRegistryAddress(ChainOf(ResolveChainByInput(input)),
                            FieldOf(accountErc8004, "registryAddresses")).ok

\* every chain the call is about resolved
EveryChainResolved(t) ==
  LET inputs == RawChainInputs(t.requestedChains, t.accountErc8004)
  IN \A i \in 1..Len(inputs) : FullyResolved(inputs[i], t.accountErc8004)

\* fee reads, transactions, receipts or results exist, or the loop is running
ChainWork(r) ==
  \/ r.feeReads # <<>> \/ r.txs # <<>> \/ r.receipts # <<>> \/ r.chainResults # <<>>
  \/ r.pc \in {"fee", "submit", "receipt"}

\* C35: no fee is read and no transaction is made on any chain unless every
\* requested chain resolved to a known chain, an RPC endpoint and a well-formed
\* registry address; otherwise the whole call ends before the loop
C35_NoChainWorkUnlessResolved ==
  tgt.pc = "done" =>
    /\ ChainWork(reg) => EveryChainResolved(tgt)
    /\ ~EveryChainResolved(tgt) => reg.pc = "threw" /\ ~tgt.out.ok

\* base and an unknown chain were requested: the call ended without chain work,
\* though base alone resolves
C35_Witness ==
  /\ tgt.pc = "done"
  /\ tgt.requestedChains = Some(<<<<"b", "a", "s", "e">>, <<"b", "o", "g", "u", "s">>>>)
  /\ tgt.accountErc8004 = None
  /\ FullyResolved(<<"b", "a", "s", "e">>, None)
  /\ reg.pc = "threw"
  /\ ~ChainWork(reg)

(***************************************************************************)
(* C36: the established callback of the open                               *)
(***************************************************************************)
Succeeded(run) == \E i \in 1..Len(run.tries) : run.tries[i]

Times(seq, e) == Cardinality({i \in 1..Len(seq) : seq[i] = e})

\* the failed attempts of the run, each reported once and in order
FailuresReportedOnce(run) ==
  LET failed == {i \in 1..Len(run.tries) : ~run.tries[i]}
  IN /\ Len(run.reported) = Cardinality(failed)
     /\ \A i \in failed : Times(run.reported, AttemptLabel(i)) = 1

\* C36: the established callback fires exactly once, after the successful open
\* and before the handle is returned, iff some attempt succeeds; when all
\* attempts fail it never fires, no handle is returned, no map entry is made
\* for the run, and every failed attempt has been reported exactly once
C36_EstablishedOnce ==
  \A r \in RunIds :
    LET run == runs[r]
    IN /\ Times(run.events, "onConnect") = IF Succeeded(run) THEN 1 ELSE 0
       /\ Succeeded(run) => run.events = <<"onConnect", "handle">> /\ run.bus # "none"
       /\ ~Succeeded(run) =>
            /\ run.events = <<>>
            /\ run.bus = "none"
            /\ \A a \in Accounts : activeBuses[a] # r
       /\ FailuresReportedOnce(run)
       /\ OpenFailed(run) =>
            run.reported = <<AttemptLabel(1), AttemptLabel(2), AttemptLabel(3)>>

\* one run opened on its second attempt and announced it once; another run of
\* the same account failed three times and announced nothing
C36_Witness ==
  \E r, q \in RunIds :
    /\ runs[r].tries = <<FALSE, TRUE>>
    /\ runs[r].events = <<"onConnect", "handle">>
    /\ runs[r].reported = <<AttemptLabel(1)>>
    /\ OpenFailed(runs[q])
    /\ runs[q].events = <<>>
    /\ Len(runs[q].reported) = 3

(***************************************************************************)
(* C37: stop, start again, and the earlier run's teardown                  *)
(***************************************************************************)
\* run r, whose session stopAccount has closed, goes through its teardown
StoppedRunTearsDown(r) ==
  /\ runs[r].pc = "closing"
  /\ runs'[r].pc # "closing"
  /\ runs[r].bus # "live"

\* the entries of the sessions that other runs opened and that are not closed
LaterEntries(r) ==
  {a \in Accounts : /\ activeBuses[a] \notin {NoBus, r}
                    /\ runs[activeBuses[a]].bus = "live"}

\* C37: when an account is stopped and started again, the abort-triggered
\* teardown of the earlier run never removes the later run's entry from the
\* active-session map
C37_TeardownKeepsLaterEntry ==
  [][\A r \in RunIds :
       StoppedRunTearsDown(r) =>
         \A a \in LaterEntries(r) : activeBuses'[a] = activeBuses[a]]_vars

(***************************************************************************)
(* C38: the pairing code reaches the sender of a new pairing request       *)
(***************************************************************************)
\* the handling of a message under pairing that made or found the sender's request
PairingHandled(s) == s.pc = "done" /\ Has(s, "upsert")

\* C38: under dmPolicy=pairing a sender whose request was newly created is
\* eventually sent its code: a message handled after the send of the code
\* failed sends the code again, so a handling that ends without an attempt of
\* its own finds the code already sent
C38_CodeSentOnLaterMessage ==
  \A h \in DOMAIN handlers :
    PairingHandled(handlers[h]) =>
      \/ codesSent[handlers[h].sender] > 0
      \/ Has(handlers[h], "codeFailed")

(***************************************************************************)
(* C39: no reply attempt before the handle is returned                     *)
(***************************************************************************)
\* a step in which handler h attempts the pairing-code reply or a delivery
ReplyAttempt(h) ==
  \/ handlers[h].pc = "sendCode" /\ handlers'[h].pc # "sendCode"
  \/ /\ handlers[h].pc = "deliver"
     /\ handlers'[h].pc = "deliver"
     /\ handlers'[h].log # handlers[h].log

\* C39: no reply attempt for an inbound message (pairing-code reply or
\* responder delivery) is made before the bus handle has been returned by the
\* open: no event is handled with the handle unavailable
C39_NoReplyBeforeHandle ==
  [][\A h \in DOMAIN handlers : ReplyAttempt(h) => HandleReturned(1)]_vars

(***************************************************************************)
(* C40: setPolicy of the onboarding adapter                                *)
(***************************************************************************)
\* a call of setPolicy changes dmPolicy, adds the wildcard for open, and keeps
\* every other field
SetPolicyKeepsOtherFields ==
  [][liveCfg'.now # liveCfg.now =>
       /\ liveCfg'.now.groupPolicy = liveCfg.now.groupPolicy
       /\ liveCfg'.now.groupAllowFrom = liveCfg.now.groupAllowFrom
       /\ liveCfg'.now.allowFrom =
            IF liveCfg'.now.dmPolicy = "open" /\ Wildcard \notin Range(liveCfg.now.allowFrom)
            THEN Append(liveCfg.now.allowFrom, Wildcard)
            ELSE liveCfg.now.allowFrom]_vars

\* the message of s was handled under the result of setPolicy(open) followed
\* by setPolicy(allowlist) or setPolicy(pairing)
RestrictedAfterOpen(s) ==
  \E i, j \in EditsBefore(s.seq) :
    /\ i < j
    /\ \A k \in EditsBefore(s.seq) : k <= j
    /\ liveCfg.edits[i].config.dmPolicy = "open"
    /\ liveCfg.edits[j].config.dmPolicy \in {"allowlist", "pairing"}

\* the sender of s was never listed: not in the configuration, not in the store
NeverListed(s) ==
  /\ ~Matches(NormalizedSet(Range(liveCfg.atStart.allowFrom)), s.sender)
  /\ s.sender \notin NormalizedSet(s.persisted)

\* C40: after setPolicy(open) followed by setPolicy(allowlist) or
\* setPolicy(pairing) the configuration gates DMs restrictively: a sender that
\* was never explicitly listed does not match the effective allowlist
C40_RestrictiveAfterOpen ==
  \A h \in DOMAIN handlers :
    LET s == handlers[h]
    IN (s.isDm /\ ReadDone(s) /\ s.pc # "dmRead" /\ RestrictedAfterOpen(s) /\ NeverListed(s))
         => ~s.allowed /\ ~Has(s, "gate")

====
